---- MODULE Spec2Model ----
(***************************************************************************)
(* Charleston concierge: the event ingestion pipeline of                   *)
(* utils/event_importer.py (EventImporter) over the SQLite store created   *)
(* by utils/create_sql_database.py and utils/database_manager.py.          *)
(*                                                                         *)
(* Strings are sequences of one-character strings, so that lower(),        *)
(* substring containment and re.split are computed, not assumed.           *)
(***************************************************************************)
EXTENDS Integers, Sequences, FiniteSets, TLC

(***************************************************************************)
(* Python values                                                           *)
(***************************************************************************)

\* Python None where a string is expected (no character is "None").
None == <<"None">>

\* Python None where an integer id is expected (ids in the tables are >= 0).
NoId == -1

\* bool(s) of a str-or-None value
Truthy(s) == s # None /\ s # <<>>

\* bool(business_id) of an int-or-None value: None and 0 are both falsy
TruthyId(i) == i # NoId /\ i # 0

LowerChar(c) ==
    CASE c = "A" -> "a" [] c = "B" -> "b" [] c = "C" -> "c" [] c = "D" -> "d"
      [] c = "E" -> "e" [] c = "F" -> "f" [] c = "G" -> "g" [] c = "H" -> "h"
      [] c = "I" -> "i" [] c = "J" -> "j" [] c = "K" -> "k" [] c = "L" -> "l"
      [] c = "M" -> "m" [] c = "N" -> "n" [] c = "O" -> "o" [] c = "P" -> "p"
      [] c = "Q" -> "q" [] c = "R" -> "r" [] c = "S" -> "s" [] c = "T" -> "t"
      [] c = "U" -> "u" [] c = "V" -> "v" [] c = "W" -> "w" [] c = "X" -> "x"
      [] c = "Y" -> "y" [] c = "Z" -> "z" [] OTHER -> c

\* str.lower()
Lower(s) == [i \in DOMAIN s |-> LowerChar(s[i])]

\* a in b, for two str
IsSubstr(a, b) ==
    \E i \in 0..(Len(b) - Len(a)) : SubSeq(b, i + 1, i + Len(a)) = a

\* the characters the regular expression class \w matches
WordChars ==
    {"a","b","c","d","e","f","g","h","i","j","k","l","m","n","o","p","q","r",
     "s","t","u","v","w","x","y","z",
     "A","B","C","D","E","F","G","H","I","J","K","L","M","N","O","P","Q","R",
     "S","T","U","V","W","X","Y","Z",
     "0","1","2","3","4","5","6","7","8","9","_"}

RECURSIVE ReSplitFrom(_, _, _, _, _)
\* re.split(r'\W+', s) from position i: acc is the list so far, cur the
\* word being read, inSep whether the previous character was a separator
ReSplitFrom(s, i, acc, cur, inSep) ==
    IF i > Len(s) THEN Append(acc, cur)
    ELSE IF s[i] \in WordChars
         THEN ReSplitFrom(s, i + 1, acc, Append(cur, s[i]), FALSE)
         ELSE IF inSep
              THEN ReSplitFrom(s, i + 1, acc, cur, TRUE)
              ELSE ReSplitFrom(s, i + 1, Append(acc, cur), <<>>, TRUE)

\* re.split(r'\W+', s): leading and trailing separators give empty strings
ReSplit(s) == ReSplitFrom(s, 1, <<>>, <<>>, FALSE)

(***************************************************************************)
(* Python dict, in insertion order: a sequence of <<key, value>>           *)
(***************************************************************************)

DictHas(d, k) == \E i \in DOMAIN d : d[i][1] = k

DictGet(d, k) == d[CHOOSE i \in DOMAIN d : d[i][1] = k][2]

\* d[k] = v: a new key goes last, an existing key keeps its place
DictPut(d, k, v) ==
    IF DictHas(d, k)
    THEN [i \in DOMAIN d |-> IF d[i][1] = k THEN <<k, v>> ELSE d[i]]
    ELSE Append(d, <<k, v>>)

(***************************************************************************)
(* The venue index of EventImporter.load_existing_data.  businesses is the *)
(* list of (id, name, location) rows, in the order of the table scan.      *)
(***************************************************************************)

RECURSIVE BuildByName(_, _, _)
BuildByName(rows, i, d) ==
    IF i > Len(rows) THEN d
    ELSE BuildByName(rows, i + 1,
            IF Truthy(rows[i].name)
            THEN DictPut(d, Lower(rows[i].name), rows[i].id) ELSE d)

\* {name.lower(): business_id for business_id, name, _ in businesses if name}
business_by_name(rows) == BuildByName(rows, 1, <<>>)

RECURSIVE BuildByLocation(_, _, _)
BuildByLocation(rows, i, d) ==
    IF i > Len(rows) THEN d
    ELSE BuildByLocation(rows, i + 1,
            IF Truthy(rows[i].location)
            THEN DictPut(d, Lower(rows[i].location), rows[i].id) ELSE d)

\* {location.lower(): business_id for business_id, _, location in businesses if location}
business_by_location(rows) == BuildByLocation(rows, 1, <<>>)

RECURSIVE AddWords(_, _, _, _)
\* for word in words: business_keywords.setdefault(word, []).append(business_id)
AddWords(words, j, id, d) ==
    IF j > Len(words) THEN d
    ELSE AddWords(words, j + 1, id,
            IF Len(words[j]) > 3
            THEN DictPut(d, words[j],
                    Append(IF DictHas(d, words[j]) THEN DictGet(d, words[j]) ELSE <<>>, id))
            ELSE d)

RECURSIVE BuildKeywords(_, _, _)
BuildKeywords(rows, i, d) ==
    IF i > Len(rows) THEN d
    ELSE BuildKeywords(rows, i + 1,
            IF Truthy(rows[i].name)
            THEN AddWords(ReSplit(Lower(rows[i].name)), 1, rows[i].id, d) ELSE d)

business_keywords(rows) == BuildKeywords(rows, 1, <<>>)

\* the three lookup structures load_existing_data leaves on the importer
VenueIndex(rows) ==
    [by_name     |-> business_by_name(rows),
     by_location |-> business_by_location(rows),
     keywords    |-> business_keywords(rows)]

(***************************************************************************)
(* EventImporter._find_matching_business                                   *)
(***************************************************************************)

\* Method 1: direct match on location
Method1(ix, event_location) ==
    IF Truthy(event_location) /\ DictHas(ix.by_location, Lower(event_location))
    THEN DictGet(ix.by_location, Lower(event_location))
    ELSE NoId

\* for business_name, b_id in business_by_name.items():
\*     if business_name in text: business_id = b_id; break
FirstContained(by_name, text) ==
    IF \E i \in DOMAIN by_name : IsSubstr(by_name[i][1], text)
    THEN by_name[CHOOSE i \in DOMAIN by_name :
                    /\ IsSubstr(by_name[i][1], text)
                    /\ \A j \in 1..(i - 1) : ~IsSubstr(by_name[j][1], text)][2]
    ELSE NoId

\* the guard of Methods 2, 3 and 4: "if not business_id"
NotBusinessId(business_id) == ~TruthyId(business_id)

\* Method 2: the location contains a business name
Method2(ix, business_id, event_location) ==
    IF NotBusinessId(business_id) /\ Truthy(event_location)
    THEN LET hit == FirstContained(ix.by_name, Lower(event_location))
         IN  IF hit # NoId THEN hit ELSE business_id
    ELSE business_id

\* Method 3: the event name contains a business name
Method3(ix, business_id, event_name) ==
    IF NotBusinessId(business_id) /\ Truthy(event_name)
    THEN LET hit == FirstContained(ix.by_name, Lower(event_name))
         IN  IF hit # NoId THEN hit ELSE business_id
    ELSE business_id

RECURSIVE AddPointsIds(_, _, _, _)
\* for b_id in ids: potential_matches[b_id] = potential_matches.get(b_id, 0) + w
AddPointsIds(ids, j, w, pm) ==
    IF j > Len(ids) THEN pm
    ELSE AddPointsIds(ids, j + 1, w,
            DictPut(pm, ids[j], (IF DictHas(pm, ids[j]) THEN DictGet(pm, ids[j]) ELSE 0) + w))

RECURSIVE AddPointsWords(_, _, _, _, _)
\* for word in words: if word in business_keywords: ...
AddPointsWords(kw, words, j, w, pm) ==
    IF j > Len(words) THEN pm
    ELSE AddPointsWords(kw, words, j + 1, w,
            IF DictHas(kw, words[j])
            THEN AddPointsIds(DictGet(kw, words[j]), 1, w, pm) ELSE pm)

\* the accumulator of Method 4: 2 points per location word, 1 per name word
potential_matches(ix, event_name, event_location) ==
    LET fromLoc == IF Truthy(event_location)
                   THEN AddPointsWords(ix.keywords, ReSplit(Lower(event_location)), 1, 2, <<>>)
                   ELSE <<>>
    IN  IF Truthy(event_name)
        THEN AddPointsWords(ix.keywords, ReSplit(Lower(event_name)), 1, 1, fromLoc)
        ELSE fromLoc

\* the last maximum of the accumulator
BestMatchLast(pm) ==
    pm[CHOOSE i \in DOMAIN pm :
          /\ \A j \in DOMAIN pm : pm[j][2] <= pm[i][2]
          /\ \A j \in (i + 1)..Len(pm) : pm[j][2] < pm[i][2]]

\* max(potential_matches.items(), key=lambda x: x[1]): the first maximum
BestMatch(pm) ==
    pm[CHOOSE i \in DOMAIN pm :
          /\ \A j \in DOMAIN pm : pm[j][2] <= pm[i][2]
          /\ \A j \in 1..(i - 1) : pm[j][2] < pm[i][2]]

\* Method 4: keyword matches in location or event name
Method4(ix, business_id, event_name, event_location) ==
    IF NotBusinessId(business_id)
    THEN LET pm == potential_matches(ix, event_name, event_location)
         IN  IF pm # <<>> /\ BestMatch(pm)[2] >= 2
             THEN BestMatch(pm)[1] ELSE business_id
    ELSE business_id

find_matching_business(ix, event_name, event_location) ==
    LET b1 == Method1(ix, event_location)
        b2 == Method2(ix, b1, event_location)
        b3 == Method3(ix, b2, event_name)
    IN  Method4(ix, b3, event_name, event_location)

(***************************************************************************)
(* The data the model runs on                                              *)
(***************************************************************************)

Jazz == <<"J","a","z","z">>
JazzNight == <<"J","a","z","z"," ","N","i","g","h","t">>
TacoFest == <<"T","a","c","o"," ","F","e","s","t">>
RooftopParty == <<"R","o","o","f","t","o","p"," ","P","a","r","t","y">>
Rooftop == <<"R","o","o","f","t","o","p">>
Vendue == <<"V","e","n","d","u","e">>
VendueUpper == <<"V","E","N","D","U","E">>
VendueRange == <<"1","9"," ","V","e","n","d","u","e"," ","R","a","n","g","e">>
TacoTaco == <<"T","a","c","o"," ","T","a","c","o">>
TacoStand == <<"T","a","c","o"," ","S","t","a","n","d",","," ","K","i","n","g"," ","S","t">>
KingSt == <<"K","i","n","g"," ","S","t">>
Date1 == <<"2","0","2","4","-","0","6","-","0","7">>
KingCharles == <<"K","i","n","g"," ","C","h","a","r","l","e","s">>

\* The rows create_database inserts for a three-line business CSV, with ids
\* counted from base: Rooftop is a bar inside the Vendue, Taco Taco has no
\* location.  create_database numbers the rows from 0.
Catalog(base) ==
    << [id |-> base,     name |-> Rooftop,  location |-> Vendue],
       [id |-> base + 1, name |-> Vendue,   location |-> VendueRange],
       [id |-> base + 2, name |-> TacoTaco, location |-> None] >>

\* Raw event dictionaries as a scraper or a CSV line delivers them; a key
\* that is absent is a missing key (scraper) or a NaN cell (CSV).
EventPool ==
    { [Name |-> <<>>, Date |-> Date1],
      [Name |-> Jazz, Date |-> Date1, Location |-> Vendue],
      [Name |-> Jazz] }

\* The events two scrapers running at the same time deliver
ConcEventPool ==
    { [Name |-> Jazz, Date |-> Date1, Location |-> Vendue],
      [Name |-> Jazz] }

\* bounds of the model
MaxEvents == 2
MaxRuns == 3
MaxConcEvents == 2
MaxConcRuns == 2

RECURSIVE SeqsUpTo(_, _)
\* all sequences over S of length at most n
SeqsUpTo(S, n) ==
    IF n = 0 THEN {<<>>}
    ELSE LET shorter == SeqsUpTo(S, n - 1)
         IN  shorter \cup {Append(s, x) : s \in {t \in shorter : Len(t) = n - 1}, x \in S}

Range(s) == {s[i] : i \in DOMAIN s}

(***************************************************************************)
(* State                                                                   *)
(***************************************************************************)

Importers == {1, 2}

VARIABLES
    businesses,            \* table businesses, in scan order
    events,                \* table events: the committed rows
    pending,               \* per connection: rows inserted and not committed
    conn,                  \* self.conn: "none", "open" or "closed"
    pc,                    \* where each importer is in its current run
    caller,                \* what is being called: one run, all sources, or the same events twice
    method,                \* the run's method: "scraper" or "csv"
    step,                  \* the first or the second run of the caller
    input,                 \* local events: the events of the current run
    existing_events,       \* self.existing_events
    loaded_businesses,     \* self.businesses
    next_id,               \* local next_id
    imported_count,        \* self.imported_count
    duplicate_count,       \* self.duplicate_count
    business_match_count,  \* self.business_match_count
    events_to_import,      \* local events_to_import
    total_imported,        \* local total_imported of import_events_from_all_sources
    first_admitted,        \* the (name, date) pairs the first run of the caller committed
    result,                \* what the last call gave its caller
    outcome,               \* which exit the last run took
    runs,                  \* number of calls started by each importer
    m_catalog, m_name, m_location, m_result,  \* one call of the matcher
    f_venues,              \* create_venue_connections: the rows of the business CSV
    f_event,               \* the event row: has it a Location, a Name
    f_pc,                  \* where the loop body is for that event
    f_scores,              \* the scores fuzz.partial_ratio gave in the last pass
    f_tried,               \* the passes whose loop has run
    f_best,                \* best_match, best_score, match_type, match_index
    f_row,                 \* Business_ID, Business_Match_Type, Business_Match_Score
    s_now,                 \* HolyCitySinnerScraper: the day datetime.now() falls on
    s_start,               \* get_all_events: today, the day of start_date
    s_days,                \* the argument days
    s_links,               \* event_links: the pages the calendar step scraped
    s_all,                 \* all_events
    s_out,                 \* filtered_events, the list get_all_events returns
    s_pc,                  \* where get_all_events is
    d_call,                \* CharlestonDB: the method last called and its arguments
    d_result,              \* ... and what it returned
    u_retries,             \* fetch_url: the argument retries
    u_pc,                  \* where fetch_url is
    u_attempt,             \* the loop variable attempt
    u_requests,            \* the outcomes of the requests.get calls made, in order
    u_delays,              \* the attempts before which time.sleep was called
    u_result               \* what fetch_url returned

importerVars ==
    <<events, pending, conn, pc, caller, method, step, input, existing_events,
      loaded_businesses, next_id, imported_count, duplicate_count,
      business_match_count, events_to_import, total_imported, first_admitted,
      result, outcome, runs>>

matcherVars == <<m_catalog, m_name, m_location, m_result>>

fuzzyVars == <<f_venues, f_event, f_pc, f_scores, f_tried, f_best, f_row>>

scraperVars == <<s_now, s_start, s_days, s_links, s_all, s_out, s_pc>>

dbVars == <<d_call, d_result>>

fetchVars == <<u_retries, u_pc, u_attempt, u_requests, u_delays, u_result>>

vars == <<businesses, importerVars, matcherVars, fuzzyVars, scraperVars, dbVars, fetchVars>>

(***************************************************************************)
(* SQLite, as the importer uses it                                         *)
(***************************************************************************)

\* what a SELECT on connection p sees: the committed rows and its own
\* uncommitted ones
Visible(p) == events \cup pending[p]

\* SELECT name, date FROM events WHERE date IS NOT NULL: a load that leaves
\* the rows without a date out
ExistingPairsDated(rows) == {<<r.name, r.date>> : r \in {x \in rows : x.date # None}}

\* SELECT name, date FROM events, as a set of tuples
ExistingPairs(rows) == {<<r.name, r.date>> : r \in rows}

\* SELECT MAX(id) FROM events; NULL on an empty table
MaxId(rows) ==
    IF rows = {} THEN NoId
    ELSE CHOOSE m \in {r.id : r \in rows} : \A r \in rows : r.id <= m

\* a next id taken from SELECT COUNT(*) FROM events
NextIdFromCount(rows) == Cardinality(rows)

\* next_id = (result[0] + 1) if result[0] is not None else 0
NextId(rows) == IF MaxId(rows) # NoId THEN MaxId(rows) + 1 ELSE 0

(***************************************************************************)
(* The per-event loop of import_events_from_scraper / _csv                 *)
(***************************************************************************)

\* dict.get(key): None for a missing key
Get(event, key) == IF key \in DOMAIN event THEN event[key] ELSE None

\* event.get(k) if event.get(k) else None
CleanScraper(v) == IF Truthy(v) THEN v ELSE None

\* event[k] if not pd.isna(event[k]) else None
CleanCsv(v) == v

Clean(m, v) == IF m = "csv" THEN CleanCsv(v) ELSE CleanScraper(v)

\* a test that only asks for the key
HasNameKey(event) == "Name" \in DOMAIN event

\* "if not name: continue" / "if pd.isna(event.get('Name')) or not event.get('Name')"
HasName(event) == Truthy(Get(event, "Name"))

\* a check that also looks the pair up in the table as it is now
IsDuplicateInTable(existing, name, date) ==
    <<name, date>> \in existing \cup ExistingPairs(events)

\* a check that sets the capitalization of the name aside
IsDuplicateAnyCase(existing, name, date) ==
    \E pair \in existing : Lower(pair[1]) = Lower(name) /\ pair[2] = date

\* "if (name, date) in self.existing_events"
IsDuplicate(existing, name, date) == <<name, date>> \in existing

\* an id taken from the place of the record in the input: next_id + i
AssignedIdByPosition(nid, imported, position) == nid + position - 1

\* the id given to the record being admitted: next_id + self.imported_count
AssignedId(nid, imported, position) == nid + imported

\* "if business_id:"
IsMatchTruthy(business_id) == TruthyId(business_id)

\* "if business_id is not None"
IsMatch(business_id) == business_id # NoId

\* One pass of the loop body.  st holds events_to_import and the three
\* counters; position is the index of the event in the input.
ProcessEvent(m, st, event, position, existing, ix, nid) ==
    IF ~HasName(event) THEN st
    ELSE LET name     == Clean(m, Get(event, "Name"))
             date     == Clean(m, Get(event, "Date"))
             location == Clean(m, Get(event, "Location"))
         IN  IF IsDuplicate(existing, name, date)
             THEN [st EXCEPT !.duplicate_count = @ + 1]
             ELSE LET business_id == find_matching_business(ix, name, location)
                  IN  [to_import |-> Append(st.to_import,
                                        [id |-> AssignedId(nid, st.imported_count, position),
                                         name |-> name, date |-> date,
                                         location |-> location,
                                         business_id |-> business_id]),
                       imported_count |-> st.imported_count + 1,
                       duplicate_count |-> st.duplicate_count,
                       business_match_count |->
                           st.business_match_count + (IF IsMatch(business_id) THEN 1 ELSE 0)]

RECURSIVE ProcessEvents(_, _, _, _, _, _, _)
\* "for event in events:" from position i on
ProcessEvents(m, st, evs, i, existing, ix, nid) ==
    IF i > Len(evs) THEN st
    ELSE ProcessEvents(m, ProcessEvent(m, st, evs[i], i, existing, ix, nid),
                       evs, i + 1, existing, ix, nid)

ZeroCounters ==
    [to_import |-> <<>>, imported_count |-> 0, duplicate_count |-> 0,
     business_match_count |-> 0]

(***************************************************************************)
(* Initial state: a fresh EventImporter per process over a database made   *)
(* by create_database, holding no event or one earlier event.              *)
(***************************************************************************)

InitialStores ==
    { {},
      {[id |-> 3, name |-> Jazz, date |-> Date1, location |-> None,
        business_id |-> NoId]} }

NoResult == [kind |-> "none", value |-> 0]

MatcherIdle ==
    /\ m_catalog = <<>>
    /\ m_name = None
    /\ m_location = None
    /\ m_result = [done |-> FALSE, business_id |-> NoId]

\* best_match = None, best_score = 0, match_type = None, match_index = -1
NoBest ==
    [best_match |-> FALSE, best_score |-> 0, match_type |-> "None", match_index |-> -1]

\* events_df['Business_ID'] = None, ['Business_Match_Type'] = None, ...
NoRow == [Business_ID |-> NoId, Business_Match_Type |-> "None", Business_Match_Score |-> 0]

FuzzyIdle ==
    /\ f_venues = <<>>
    /\ f_event = [has_location |-> FALSE, has_name |-> FALSE]
    /\ f_pc = "idle"
    /\ f_scores = <<>>
    /\ f_tried = {}
    /\ f_best = NoBest
    /\ f_row = NoRow

ScraperIdle ==
    /\ s_now = <<>>
    /\ s_start = <<>>
    /\ s_days = 0
    /\ s_links = <<>>
    /\ s_all = <<>>
    /\ s_out = <<>>
    /\ s_pc = "idle"

NoCall == [op |-> "none"]

DbIdle ==
    /\ d_call = NoCall
    /\ d_result = NoId

FetchIdle ==
    /\ u_retries = 0
    /\ u_pc = "idle"
    /\ u_attempt = 0
    /\ u_requests = <<>>
    /\ u_delays = {}
    /\ u_result = "None"

ImportersIdle ==
    /\ pending = [p \in Importers |-> {}]
    /\ conn = [p \in Importers |-> "none"]
    /\ pc = [p \in Importers |-> "idle"]
    /\ caller = [p \in Importers |-> "none"]
    /\ method = [p \in Importers |-> "none"]
    /\ step = [p \in Importers |-> 1]
    /\ input = [p \in Importers |-> <<>>]
    /\ existing_events = [p \in Importers |-> {}]
    /\ loaded_businesses = [p \in Importers |-> <<>>]
    /\ next_id = [p \in Importers |-> 0]
    /\ imported_count = [p \in Importers |-> 0]
    /\ duplicate_count = [p \in Importers |-> 0]
    /\ business_match_count = [p \in Importers |-> 0]
    /\ events_to_import = [p \in Importers |-> <<>>]
    /\ total_imported = [p \in Importers |-> 0]
    /\ first_admitted = [p \in Importers |-> {}]
    /\ result = [p \in Importers |-> NoResult]
    /\ outcome = [p \in Importers |-> "new"]
    /\ runs = [p \in Importers |-> 0]

Init ==
    /\ businesses = Catalog(0)
    /\ events \in InitialStores
    /\ ImportersIdle
    /\ MatcherIdle
    /\ FuzzyIdle
    /\ ScraperIdle
    /\ DbIdle
    /\ FetchIdle

(***************************************************************************)
(* How a run hands its value back.  Inside import_events_from_all_sources  *)
(* the value of the "hcs" run is added to total_imported and the "cvb" run *)
(* follows; a caller that ingests the same events twice goes on to its     *)
(* second run once the first has gone through.  The locals of the run end  *)
(* with it.  An exception leaves every frame.                              *)
(***************************************************************************)

Completed == {"committed", "nothing_new"}

MoreToCall(c, stp, exit) ==
    \/ c = "all" /\ stp = 1
    \/ c = "twice" /\ stp = 1 /\ exit \in Completed

Returns(p, c, m, stp, tot, value, exit, admitted) ==
    /\ outcome' = [outcome EXCEPT ![p] = exit]
    /\ pc' = [pc EXCEPT ![p] = IF MoreToCall(c, stp, exit) THEN "next_call" ELSE "idle"]
    /\ total_imported' = [total_imported EXCEPT ![p] =
                             IF MoreToCall(c, stp, exit) /\ c = "all" THEN tot + value ELSE 0]
    /\ result' = IF MoreToCall(c, stp, exit) THEN result
                 ELSE [result EXCEPT ![p] =
                          [kind |-> "returned",
                           value |-> IF c = "all" THEN tot + value ELSE value]]
    /\ first_admitted' = [first_admitted EXCEPT ![p] =
                             IF MoreToCall(c, stp, exit) /\ c = "all" THEN admitted ELSE {}]
    /\ input' = [input EXCEPT ![p] =
                    IF MoreToCall(c, stp, exit) /\ c = "twice" THEN @ ELSE <<>>]
    /\ next_id' = [next_id EXCEPT ![p] = 0]
    /\ events_to_import' = [events_to_import EXCEPT ![p] = <<>>]
    /\ caller' = [caller EXCEPT ![p] = IF MoreToCall(c, stp, exit) THEN c ELSE "none"]
    /\ method' = [method EXCEPT ![p] = IF MoreToCall(c, stp, exit) THEN m ELSE "none"]
    /\ step' = [step EXCEPT ![p] = IF MoreToCall(c, stp, exit) THEN stp ELSE 1]

Raises(p, exit) ==
    /\ outcome' = [outcome EXCEPT ![p] = exit]
    /\ pc' = [pc EXCEPT ![p] = "idle"]
    /\ result' = [result EXCEPT ![p] = [kind |-> "raised", value |-> 0]]
    /\ first_admitted' = [first_admitted EXCEPT ![p] = {}]
    /\ input' = [input EXCEPT ![p] = <<>>]
    /\ next_id' = [next_id EXCEPT ![p] = 0]
    /\ events_to_import' = [events_to_import EXCEPT ![p] = <<>>]
    /\ caller' = [caller EXCEPT ![p] = "none"]
    /\ method' = [method EXCEPT ![p] = "none"]
    /\ step' = [step EXCEPT ![p] = 1]
    /\ total_imported' = [total_imported EXCEPT ![p] = 0]

(***************************************************************************)
(* The public methods of EventImporter, one action per step between two    *)
(* accesses to the database                                                *)
(***************************************************************************)

\* the runs started so far, by all importers
RunsStarted == runs[1] + runs[2]

\* "Reset statistics"
ResetStatistics(p) ==
    /\ imported_count' = [imported_count EXCEPT ![p] = 0]
    /\ duplicate_count' = [duplicate_count EXCEPT ![p] = 0]
    /\ business_match_count' = [business_match_count EXCEPT ![p] = 0]

\* import_events_from_scraper up to "if not events: return 0";
\* import_events_from_csv up to the reset of the statistics, with a file
\* that reads (an empty file goes on to load the data)
RunBegins(p, c, m, stp, tot, evs) ==
    /\ ResetStatistics(p)
    /\ runs' = [runs EXCEPT ![p] = @ + 1]
    /\ IF evs = <<>> /\ m = "scraper"
       THEN Returns(p, c, m, stp, tot, 0, "no_events", {})
       ELSE /\ pc' = [pc EXCEPT ![p] = "load"]
            /\ caller' = [caller EXCEPT ![p] = c]
            /\ method' = [method EXCEPT ![p] = m]
            /\ step' = [step EXCEPT ![p] = stp]
            /\ input' = [input EXCEPT ![p] = evs]
            /\ total_imported' = [total_imported EXCEPT ![p] = tot]
            /\ UNCHANGED <<result, outcome, first_admitted, next_id, events_to_import>>
    /\ UNCHANGED <<businesses, events, pending, conn, existing_events,
                   loaded_businesses, matcherVars, fuzzyVars, scraperVars, dbVars, fetchVars>>

\* import_events_from_scraper(scraper_name) or import_events_from_csv(path),
\* called once
StartRun(p, methods, inputs, maxRuns) ==
    /\ pc[p] = "idle"
    /\ RunsStarted < maxRuns
    /\ \E m \in methods, evs \in inputs :
          RunBegins(p, "one", m, 1, 0, evs)

\* import_events_from_all_sources: total_imported = 0, then the "hcs" run
StartAll(p, inputs, maxRuns) ==
    /\ pc[p] = "idle"
    /\ RunsStarted + 1 < maxRuns
    /\ \E evs \in inputs : RunBegins(p, "all", "scraper", 1, 0, evs)

\* import_events_from_all_sources: the "cvb" run after the "hcs" run
NextSource(p, inputs) ==
    /\ pc[p] = "next_call"
    /\ caller[p] = "all"
    /\ \E evs \in inputs :
          RunBegins(p, "all", "scraper", 2, total_imported[p], evs)

\* a caller that ingests one sequence of events twice: the first run
StartTwice(p, inputs, maxRuns) ==
    /\ pc[p] = "idle"
    /\ RunsStarted + 1 < maxRuns
    /\ \E m \in {"scraper", "csv"}, evs \in inputs \ {<<>>} :
          RunBegins(p, "twice", m, 1, 0, evs)

\* ... and the second run, over the same events
Reingest(p) ==
    /\ pc[p] = "next_call"
    /\ caller[p] = "twice"
    /\ RunBegins(p, "twice", method[p], 2, 0, input[p])

\* import_events_from_csv with a missing or unreadable file: returns 0
\* before the statistics are reset
CsvUnreadable(p, maxRuns) ==
    /\ pc[p] = "idle"
    /\ RunsStarted < maxRuns
    /\ runs' = [runs EXCEPT ![p] = @ + 1]
    /\ Returns(p, "one", "csv", 1, 0, 0, "no_file", {})
    /\ UNCHANGED <<businesses, events, pending, conn, existing_events,
                   loaded_businesses, imported_count, duplicate_count,
                   business_match_count, matcherVars, fuzzyVars, scraperVars, dbVars, fetchVars>>

\* a load that keeps the set it has once the connection is open
SelectExistingOnce(p) ==
    IF conn[p] = "open" THEN existing_events[p] ELSE ExistingPairs(Visible(p))

\* self.existing_events = set((name, date) for name, date in fetchall())
SelectExisting(p) == ExistingPairs(Visible(p))

\* load_existing_data succeeds: connect_to_db keeps an existing self.conn,
\* then the two SELECTs and the index
LoadOk(p) ==
    /\ pc[p] = "load"
    /\ conn[p] \in {"none", "open"}
    /\ conn' = [conn EXCEPT ![p] = "open"]
    /\ existing_events' = [existing_events EXCEPT ![p] = SelectExisting(p)]
    /\ loaded_businesses' = [loaded_businesses EXCEPT ![p] = businesses]
    /\ pc' = [pc EXCEPT ![p] = "maxid"]
    /\ UNCHANGED <<businesses, events, pending, caller, method, step, input,
                   next_id, imported_count, duplicate_count,
                   business_match_count, events_to_import, total_imported,
                   first_admitted, result, outcome, runs, matcherVars, fuzzyVars, scraperVars, dbVars, fetchVars>>

\* a run that goes on to SELECT MAX(id) although the load has failed
LoadFailsGoesOn(p) ==
    /\ pc[p] = "load"
    /\ conn[p] \in {"none", "closed"}
    /\ pc' = [pc EXCEPT ![p] = "maxid"]
    /\ UNCHANGED <<businesses, events, pending, conn, caller, method, step, input,
                   existing_events, loaded_businesses, next_id, imported_count,
                   duplicate_count, business_match_count, events_to_import,
                   total_imported, first_admitted, result, outcome, runs,
                   matcherVars, fuzzyVars, scraperVars, dbVars, fetchVars>>

\* load_existing_data returns False: sqlite3.connect raised, or self.conn
\* was closed by close() and the first execute raises; the run returns 0
LoadFails(p) ==
    /\ pc[p] = "load"
    /\ conn[p] \in {"none", "closed"}
    /\ Returns(p, caller[p], method[p], step[p], total_imported[p], 0, "load_failed", {})
    /\ UNCHANGED <<businesses, events, pending, conn, existing_events,
                   loaded_businesses, imported_count, duplicate_count,
                   business_match_count, runs, matcherVars, fuzzyVars, scraperVars, dbVars, fetchVars>>

\* SELECT MAX(id), then the loop over the events
ReadMaxId(p) ==
    /\ pc[p] = "maxid"
    /\ LET nid == NextId(Visible(p))
           st  == ProcessEvents(method[p], ZeroCounters, input[p], 1,
                                existing_events[p],
                                VenueIndex(loaded_businesses[p]), nid)
       IN  /\ next_id' = [next_id EXCEPT ![p] = nid]
           /\ events_to_import' = [events_to_import EXCEPT ![p] = st.to_import]
           /\ imported_count' = [imported_count EXCEPT ![p] = st.imported_count]
           /\ duplicate_count' = [duplicate_count EXCEPT ![p] = st.duplicate_count]
           /\ business_match_count' =
                  [business_match_count EXCEPT ![p] = st.business_match_count]
    /\ pc' = [pc EXCEPT ![p] = "insert"]
    /\ UNCHANGED <<businesses, events, pending, conn, caller, method, step,
                   input, existing_events, loaded_businesses, total_imported,
                   first_admitted, result, outcome, runs, matcherVars, fuzzyVars, scraperVars, dbVars, fetchVars>>

\* "No new events to import": nothing is executed and nothing committed
NothingNew(p) ==
    /\ pc[p] = "insert"
    /\ events_to_import[p] = <<>>
    /\ Returns(p, caller[p], method[p], step[p], total_imported[p], imported_count[p],
               "nothing_new", {})
    /\ UNCHANGED <<businesses, events, pending, conn, existing_events,
                   loaded_businesses, imported_count, duplicate_count,
                   business_match_count, runs, matcherVars, fuzzyVars, scraperVars, dbVars, fetchVars>>

\* another connection holds a write transaction: INSERT gets
\* "database is locked" once the busy timeout is over
Locked(p) == \E q \in Importers \ {p} : pending[q] # {}

\* the rows of the batch whose id is already the primary key of a row
\* this connection sees: INSERT raises IntegrityError there
Collisions(p) ==
    {k \in DOMAIN events_to_import[p] :
        events_to_import[p][k].id \in {r.id : r \in Visible(p)}}

\* conn.commit(): the transaction of the connection becomes part of the
\* table, the batch and whatever the transaction held before it
Committed(p, batch) == events \cup pending[p] \cup Range(batch)

\* executemany reaches the end of the batch, then conn.commit()
InsertCommit(p) ==
    /\ pc[p] = "insert"
    /\ events_to_import[p] # <<>>
    /\ ~Locked(p)
    /\ Collisions(p) = {}
    /\ events' = Committed(p, events_to_import[p])
    /\ pending' = [pending EXCEPT ![p] = {}]
    /\ Returns(p, caller[p], method[p], step[p], total_imported[p], imported_count[p],
               "committed", ExistingPairs(Range(events_to_import[p])))
    /\ UNCHANGED <<businesses, conn, existing_events, loaded_businesses,
                   imported_count, duplicate_count, business_match_count,
                   runs, matcherVars, fuzzyVars, scraperVars, dbVars, fetchVars>>

\* how a failed executemany leaves the method: the scraper path has no
\* except clause, the CSV path prints the error and returns 0
InsertFailureExit(p) ==
    IF method[p] = "csv"
    THEN Returns(p, caller[p], method[p], step[p], total_imported[p], 0, "insert_failed", {})
    ELSE Raises(p, "insert_failed")

\* what the open transaction holds after executemany raised at row k:
\* the rows before k, which nothing rolls back
AfterFailedInsert(held, batch, k) == held \cup {batch[j] : j \in 1..(k - 1)}

\* executemany raises at row k: a locked database, a primary key that
\* exists, a full disk
InsertFails(p) ==
    /\ pc[p] = "insert"
    /\ \E k \in DOMAIN events_to_import[p] :
          /\ Locked(p) => k = 1
          /\ \A c \in Collisions(p) : k <= c
          /\ pending' = [pending EXCEPT ![p] =
                            AfterFailedInsert(@, events_to_import[p], k)]
    /\ InsertFailureExit(p)
    /\ UNCHANGED <<businesses, events, conn, existing_events,
                   loaded_businesses, imported_count, duplicate_count,
                   business_match_count, runs, matcherVars, fuzzyVars, scraperVars, dbVars, fetchVars>>

\* close(): self.conn.close() rolls the open transaction back; self.conn
\* keeps the closed connection
Close(p) ==
    /\ pc[p] = "idle"
    /\ conn[p] = "open"
    /\ conn' = [conn EXCEPT ![p] = "closed"]
    /\ pending' = [pending EXCEPT ![p] = {}]
    /\ UNCHANGED <<businesses, events, pc, caller, method, step, input,
                   existing_events, loaded_businesses, next_id, imported_count,
                   duplicate_count, business_match_count, events_to_import,
                   total_imported, first_admitted, result, outcome, runs,
                   matcherVars, fuzzyVars, scraperVars, dbVars, fetchVars>>

\* EventImporter() again, as import_all_events and import_events_from_source
\* make one per call
NewImporter(p) ==
    /\ pc[p] = "idle"
    /\ conn[p] = "closed"
    /\ conn' = [conn EXCEPT ![p] = "none"]
    /\ existing_events' = [existing_events EXCEPT ![p] = {}]
    /\ loaded_businesses' = [loaded_businesses EXCEPT ![p] = <<>>]
    /\ ResetStatistics(p)
    /\ result' = [result EXCEPT ![p] = NoResult]
    /\ outcome' = [outcome EXCEPT ![p] = "new"]
    /\ UNCHANGED <<businesses, events, pending, pc, caller, method, step,
                   input, next_id, events_to_import, total_imported,
                   first_admitted, runs, matcherVars, fuzzyVars, scraperVars, dbVars, fetchVars>>

\* the event lists a scraper or a CSV file may deliver
Inputs == SeqsUpTo(EventPool, MaxEvents)

ConcInputs == SeqsUpTo(ConcEventPool, MaxConcEvents)

\* one importer, any sequence of calls
Next ==
    \E p \in {1} :
        \/ StartRun(p, {"scraper", "csv"}, Inputs, MaxRuns)
        \/ StartAll(p, Inputs, MaxRuns)
        \/ NextSource(p, Inputs)
        \/ StartTwice(p, Inputs, MaxRuns)
        \/ Reingest(p)
        \/ CsvUnreadable(p, MaxRuns)
        \/ LoadOk(p)
        \/ LoadFails(p)
        \/ ReadMaxId(p)
        \/ NothingNew(p)
        \/ InsertCommit(p)
        \/ InsertFails(p)
        \/ Close(p)
        \/ NewImporter(p)

Spec == Init /\ [][Next]_vars

\* two importers, each with its own connection, run
\* import_events_from_scraper at the same time
NextConc ==
    \E p \in Importers :
        \/ StartRun(p, {"scraper"}, ConcInputs, MaxConcRuns)
        \/ LoadOk(p)
        \/ ReadMaxId(p)
        \/ NothingNew(p)
        \/ InsertCommit(p)
        \/ InsertFails(p)

SpecConc == Init /\ [][NextConc]_vars

(***************************************************************************)
(* _find_matching_business on its own: one call, over the index of any     *)
(* catalog and any event name and location                                 *)
(***************************************************************************)

\* the businesses tables: empty, as create_database numbers them (from 0),
\* and numbered from 1 (the first line of the CSV had no name)
MatchCatalogs == {<<>>, Catalog(0), Catalog(1)}

MatchNames == {None, Jazz, JazzNight, TacoFest, RooftopParty}

MatchLocations == {None, Vendue, VendueUpper, VendueRange, TacoStand, KingSt}

InitMatch ==
    /\ businesses \in MatchCatalogs
    /\ events = {}
    /\ ImportersIdle
    /\ m_catalog = businesses
    /\ m_name \in MatchNames
    /\ m_location \in MatchLocations
    /\ m_result = [done |-> FALSE, business_id |-> NoId]
    /\ FuzzyIdle
    /\ ScraperIdle
    /\ DbIdle
    /\ FetchIdle

\* business_id = self._find_matching_business(name, location)
Match ==
    /\ ~m_result.done
    /\ m_result' = [done |-> TRUE,
                    business_id |-> find_matching_business(VenueIndex(m_catalog),
                                                           m_name, m_location)]
    /\ UNCHANGED <<businesses, importerVars, m_catalog, m_name, m_location, fuzzyVars,
                   scraperVars, dbVars, fetchVars>>

NextMatch == Match

SpecMatch == InitMatch /\ [][NextMatch]_vars

(***************************************************************************)
(* The per-event loop on its own: one importer that has loaded its data    *)
(* runs the loop over any short list of raw records                        *)
(***************************************************************************)

\* raw records: without a Name key, with an empty Name, with Name None,
\* with the fields under lowercase keys, and three well-formed ones
LoopEventPool ==
    { [Date |-> Date1],
      [Name |-> <<>>, Date |-> Date1],
      [Name |-> None, Location |-> Vendue],
      [name |-> TacoFest, date |-> Date1, location |-> Vendue],
      [Name |-> Jazz, Date |-> Date1, Location |-> Vendue],
      [Name |-> Jazz],
      [Name |-> RooftopParty, Date |-> Date1, Location |-> KingSt] }

\* the longest list of records of a run of the loop
MaxLoopEvents == 2

\* the importer after import_events_from_scraper/_csv has loaded its data,
\* over one of the catalogs and a list of at most maxLen records of the pool
LoopReady(catalogs, pool, maxLen) ==
    /\ businesses \in catalogs
    /\ events \in InitialStores
    /\ MatcherIdle
    /\ FuzzyIdle
    /\ ScraperIdle
    /\ DbIdle
    /\ FetchIdle
    /\ pending = [p \in Importers |-> {}]
    /\ conn = [p \in Importers |-> IF p = 1 THEN "open" ELSE "none"]
    /\ pc = [p \in Importers |-> IF p = 1 THEN "maxid" ELSE "idle"]
    /\ caller = [p \in Importers |-> IF p = 1 THEN "one" ELSE "none"]
    /\ \E m \in {"scraper", "csv"} :
          method = [p \in Importers |-> IF p = 1 THEN m ELSE "none"]
    /\ step = [p \in Importers |-> 1]
    /\ \E evs \in SeqsUpTo(pool, maxLen) :
          input = [p \in Importers |-> IF p = 1 THEN evs ELSE <<>>]
    /\ existing_events = [p \in Importers |-> IF p = 1 THEN ExistingPairs(events) ELSE {}]
    /\ loaded_businesses = [p \in Importers |-> IF p = 1 THEN businesses ELSE <<>>]
    /\ next_id = [p \in Importers |-> 0]
    /\ imported_count = [p \in Importers |-> 0]
    /\ duplicate_count = [p \in Importers |-> 0]
    /\ business_match_count = [p \in Importers |-> 0]
    /\ events_to_import = [p \in Importers |-> <<>>]
    /\ total_imported = [p \in Importers |-> 0]
    /\ first_admitted = [p \in Importers |-> {}]
    /\ result = [p \in Importers |-> NoResult]
    /\ outcome = [p \in Importers |-> "new"]
    /\ runs = [p \in Importers |-> IF p = 1 THEN 1 ELSE 0]

InitLoop == LoopReady(MatchCatalogs, LoopEventPool, MaxLoopEvents)

NextLoop == ReadMaxId(1)

SpecLoop == InitLoop /\ [][NextLoop]_vars

\* The loop over records that differ from a stored event, and from each
\* other, in the capitalization of the name, in a trailing blank or in the
\* date only
Date2 == <<"2","0","2","4","-","0","6","-","0","8">>
JazzLower == <<"j","a","z","z">>
JazzBlank == <<"J","a","z","z"," ">>

DedupEventPool ==
    { [Name |-> Jazz, Date |-> Date1],
      [Name |-> JazzLower, Date |-> Date1],
      [Name |-> JazzBlank, Date |-> Date1],
      [Name |-> Jazz, Date |-> Date2],
      [Name |-> Jazz] }

MaxDedupEvents == 2

InitDedup == LoopReady({Catalog(0)}, DedupEventPool, MaxDedupEvents)

NextDedup == ReadMaxId(1)

SpecDedup == InitDedup /\ [][NextDedup]_vars

(***************************************************************************)
(* create_venue_connections (utils/create_venue_connections.py and cli.py) *)
(* for one row of the events CSV.  fuzz.partial_ratio belongs to the       *)
(* library thefuzz: its value is an integer in 0..100, taken here from     *)
(* ScoreValues for every venue, and 0 when one of the strings is empty.    *)
(***************************************************************************)

\* "if score > 80" of the two location passes, "if score > 85" of the name pass
LocationThreshold == 80
NameThreshold == 85

ScoreValues == {0, 80, 81, 85, 86}

\* the largest number of rows of the business CSV
MaxVenues == 2

\* a row of the business CSV: is its cleaned name longer than 3 characters,
\* has it a Location
VenueRows == [long_name : BOOLEAN, has_location : BOOLEAN]

\* score at or above the threshold
AcceptsFrom(score, threshold) == score >= threshold

\* "score > 80" / "score > 85"
Accepts(score, threshold) == score > threshold

RECURSIVE FuzzyPass(_, _, _, _, _, _)
\* for j, ... in enumerate(...): if usable: if score > threshold and
\* score > best_score: best_score, best_match, match_type, match_index = ...
FuzzyPass(usable, scores, threshold, type, j, best) ==
    IF j > Len(scores) THEN best
    ELSE FuzzyPass(usable, scores, threshold, type, j + 1,
            IF usable[j] /\ Accepts(scores[j], threshold) /\ scores[j] > best.best_score
            THEN [best_match |-> TRUE, best_score |-> scores[j],
                  match_type |-> type, match_index |-> j - 1]
            ELSE best)

\* "if business_name and len(business_name) > 3"
UsableNames == [j \in DOMAIN f_venues |-> f_venues[j].long_name]

\* "if business_loc and not pd.isna(business_loc)"
UsableLocations == [j \in DOMAIN f_venues |-> f_venues[j].has_location]

\* the scores one pass may get: any, but 0 against an empty event name
ScoreLists(empty) ==
    IF empty THEN {[j \in DOMAIN f_venues |-> 0]}
    ELSE [DOMAIN f_venues -> ScoreValues]

InitFuzzy ==
    /\ businesses = <<>>
    /\ events = {}
    /\ ImportersIdle
    /\ MatcherIdle
    /\ f_venues \in SeqsUpTo(VenueRows, MaxVenues)
    /\ f_event \in [has_location : BOOLEAN, has_name : BOOLEAN]
    /\ f_pc = "event"
    /\ f_scores = <<>>
    /\ f_tried = {}
    /\ f_best = NoBest
    /\ f_row = NoRow
    /\ ScraperIdle
    /\ DbIdle
    /\ FetchIdle

\* "if not location: continue"
SkipNoLocation ==
    /\ f_pc = "event"
    /\ ~f_event.has_location
    /\ f_pc' = "done"
    /\ UNCHANGED <<businesses, importerVars, matcherVars, scraperVars, dbVars, fetchVars,
                   f_venues, f_event,
                   f_scores, f_tried, f_best, f_row>>

\* "Try to match on business name in the location field"
LocationToName ==
    /\ f_pc = "event"
    /\ f_event.has_location
    /\ \E scores \in ScoreLists(FALSE) :
          /\ f_scores' = scores
          /\ f_best' = FuzzyPass(UsableNames, scores, LocationThreshold,
                                 "location_to_name", 1, NoBest)
    /\ f_tried' = {"location_to_name"}
    /\ f_pc' = "location_pass"
    /\ UNCHANGED <<businesses, importerVars, matcherVars, scraperVars, dbVars, fetchVars,
                   f_venues, f_event, f_row>>

\* "If no match found yet, try matching on business location"
LocationToLocation ==
    /\ f_pc = "location_pass"
    /\ IF ~f_best.best_match
       THEN /\ \E scores \in ScoreLists(FALSE) :
                  /\ f_scores' = scores
                  /\ f_best' = FuzzyPass(UsableLocations, scores, LocationThreshold,
                                         "location_to_location", 1, f_best)
            /\ f_tried' = f_tried \cup {"location_to_location"}
       ELSE UNCHANGED <<f_scores, f_tried, f_best>>
    /\ f_pc' = "name_pass"
    /\ UNCHANGED <<businesses, importerVars, matcherVars, scraperVars, dbVars, fetchVars,
                   f_venues, f_event, f_row>>

\* "If still no match, check if the event name contains a business name"
NameToName ==
    /\ f_pc = "name_pass"
    /\ IF ~f_best.best_match
       THEN /\ \E scores \in ScoreLists(~f_event.has_name) :
                  /\ f_scores' = scores
                  /\ f_best' = FuzzyPass(UsableNames, scores, NameThreshold,
                                         "name_to_name", 1, f_best)
            /\ f_tried' = f_tried \cup {"name_to_name"}
       ELSE UNCHANGED <<f_scores, f_tried, f_best>>
    /\ f_pc' = "record"
    /\ UNCHANGED <<businesses, importerVars, matcherVars, scraperVars, dbVars, fetchVars,
                   f_venues, f_event, f_row>>

\* "Record the match information if found"
RecordMatch ==
    /\ f_pc = "record"
    /\ f_row' = IF f_best.best_match /\ f_best.match_index >= 0
                THEN [Business_ID |-> f_best.match_index,
                      Business_Match_Type |-> f_best.match_type,
                      Business_Match_Score |-> f_best.best_score]
                ELSE f_row
    /\ f_pc' = "done"
    /\ UNCHANGED <<businesses, importerVars, matcherVars, scraperVars, dbVars, fetchVars,
                   f_venues, f_event,
                   f_scores, f_tried, f_best>>

NextFuzzy ==
    \/ SkipNoLocation
    \/ LocationToName
    \/ LocationToLocation
    \/ NameToName
    \/ RecordMatch

SpecFuzzy == InitFuzzy /\ [][NextFuzzy]_vars

(***************************************************************************)
(* The two matchers side by side, on inputs where venues tie: one call of  *)
(* _find_matching_business over a catalog with a fourth venue, and one     *)
(* event row of create_venue_connections against two usable venues.        *)
(***************************************************************************)

TieCatalog ==
    Catalog(0) \o << [id |-> 3, name |-> KingCharles, location |-> None] >>

TieNames == {TacoFest, JazzNight}

TieLocations == {None, KingSt}

TieVenues == {<< [long_name |-> TRUE, has_location |-> TRUE],
                 [long_name |-> TRUE, has_location |-> TRUE] >>}

InitTie ==
    /\ businesses = TieCatalog
    /\ events = {}
    /\ ImportersIdle
    /\ m_catalog = businesses
    /\ m_name \in TieNames
    /\ m_location \in TieLocations
    /\ m_result = [done |-> FALSE, business_id |-> NoId]
    /\ f_venues \in TieVenues
    /\ f_event \in [has_location : BOOLEAN, has_name : BOOLEAN]
    /\ f_pc = "event"
    /\ f_scores = <<>>
    /\ f_tried = {}
    /\ f_best = NoBest
    /\ f_row = NoRow
    /\ ScraperIdle
    /\ DbIdle
    /\ FetchIdle

NextTie ==
    \/ Match
    \/ SkipNoLocation
    \/ LocationToName
    \/ LocationToLocation
    \/ NameToName
    \/ RecordMatch

SpecTie == InitTie /\ [][NextTie]_vars

(***************************************************************************)
(* HolyCitySinnerScraper (data_collection/sources/holycitysinner.py).      *)
(* A date is <<year, month, day>>; the scraper holds it as '%Y-%m-%d' text *)
(* and compares the texts, that is field by field from the year.           *)
(* datetime, timedelta and strptime belong to the standard library: they   *)
(* count the days of the proleptic Gregorian calendar and raise ValueError *)
(* for a day the calendar does not have.  An event is its Name, Date and   *)
(* URL; the other keys of the dict play no part in a decision.             *)
(***************************************************************************)

NoDate == <<>>

\* group 3 of the date patterns, when the text has no year
NoYear == 0

NoEvent == [Name |-> "", Date |-> NoDate, URL |-> ""]

IsLeap(y) == (y % 4 = 0) /\ ((y % 100 # 0) \/ (y % 400 = 0))

DaysInMonth(y, m) ==
    IF m = 2 THEN (IF IsLeap(y) THEN 29 ELSE 28)
    ELSE IF m \in {4, 6, 9, 11} THEN 30 ELSE 31

\* what strptime and replace accept; anything else raises ValueError
IsDate(d) == d[2] \in 1..12 /\ d[3] \in 1..DaysInMonth(d[1], d[2])

RECURSIVE DaysBeforeMonth(_, _)
DaysBeforeMonth(y, m) ==
    IF m = 1 THEN 0 ELSE DaysBeforeMonth(y, m - 1) + DaysInMonth(y, m - 1)

DaysBeforeYear(y) ==
    (y - 1) * 365 + ((y - 1) \div 4) - ((y - 1) \div 100) + ((y - 1) \div 400)

\* date.toordinal
Ordinal(d) == DaysBeforeYear(d[1]) + DaysBeforeMonth(d[1], d[2]) + d[3]

RECURSIVE YearOf(_, _)
YearOf(n, y) == IF DaysBeforeYear(y + 1) < n THEN YearOf(n, y + 1) ELSE y

RECURSIVE MonthOf(_, _, _)
MonthOf(rest, y, m) ==
    IF m < 12 /\ DaysBeforeMonth(y, m + 1) < rest THEN MonthOf(rest, y, m + 1) ELSE m

\* date.fromordinal
FromOrdinal(n) ==
    LET y == YearOf(n, ((n - 1) \div 366) + 1)
        rest == n - DaysBeforeYear(y)
        m == MonthOf(rest, y, 1)
    IN  <<y, m, rest - DaysBeforeMonth(y, m)>>

\* (today + timedelta(days=k)).strftime('%Y-%m-%d')
PlusDays(d, k) == FromOrdinal(Ordinal(d) + k)

\* (datetime.now() - date_obj).days, date_obj being a midnight
DaysSince(now, d) == Ordinal(now) - Ordinal(d)

\* a < b and a <= b on two '%Y-%m-%d' texts
IsoLess(a, b) ==
    \/ a[1] < b[1]
    \/ a[1] = b[1] /\ a[2] < b[2]
    \/ a[1] = b[1] /\ a[2] = b[2] /\ a[3] < b[3]

IsoLeq(a, b) == a = b \/ IsoLess(a, b)

FarFutureDays == 365
RollDays == 180
DefaultDays == 30

\* date_obj.replace(year=date_obj.year + 1)
ReplaceYear(d) == <<d[1] + 1, d[2], d[3]>>

\* _extract_events_from_text, one date match: the date of its events, or
\* NoDate when a ValueError makes the loop go on to the next match
TextDate(now, match) ==
    LET year == IF match.year # NoYear THEN match.year ELSE now[1]
        date_obj == <<year, match.month, match.day>>
    IN  IF ~IsDate(date_obj) THEN NoDate
        ELSE IF DaysSince(now, date_obj) > RollDays
             THEN (IF IsDate(ReplaceYear(date_obj)) THEN ReplaceYear(date_obj) ELSE NoDate)
             ELSE date_obj

\* _extract_events_from_text: each match is followed by one paragraph, whose
\* first sentence is the title
RECURSIVE extract_events_from_text(_, _, _, _, _)
extract_events_from_text(now, matches, source_url, i, acc) ==
    IF i > Len(matches) THEN acc
    ELSE LET date_str == TextDate(now, matches[i])
         IN  extract_events_from_text(now, matches, source_url, i + 1,
                 IF date_str = NoDate THEN acc
                 ELSE Append(acc, [Name |-> matches[i].title, Date |-> date_str,
                                   URL |-> source_url]))

\* scrape_event: the date of the URL, else the first date of the description
\* with the current year for a missing one; the event only with name and date
scrape_event(now, page) ==
    LET date_text ==
            IF page.url_date # NoDate THEN page.url_date
            ELSE IF page.has_text
                 THEN <<IF page.year # NoYear THEN page.year ELSE now[1],
                        page.month, page.day>>
                 ELSE NoDate
    IN  IF page.name # "" /\ date_text # NoDate
        THEN [Name |-> page.name, Date |-> date_text, URL |-> page.url]
        ELSE NoEvent

\* get_events_for_date_range, "Validate the event date is within our range"
InRange(event_date, start_date, end_date) ==
    IsoLeq(start_date, event_date) /\ IsoLeq(event_date, end_date)

\* get_events_for_date_range, "Scrape each potential event page"
RECURSIVE ScrapePages(_, _, _, _, _, _)
ScrapePages(now, event_links, start_date, end_date, i, acc) ==
    IF i > Len(event_links) THEN acc
    ELSE LET event_data == scrape_event(now, event_links[i])
         IN  ScrapePages(now, event_links, start_date, end_date, i + 1,
                 IF event_data = NoEvent THEN acc
                 ELSE IF event_data.Date # NoDate
                      THEN (IF InRange(event_data.Date, start_date, end_date)
                            THEN Append(acc, event_data) ELSE acc)
                      ELSE Append(acc, event_data))

get_events_for_date_range(now, event_links, matches, start_date, end_date) ==
    IF Len(event_links) = 0
    THEN extract_events_from_text(now, matches, "calendar", 1, <<>>)
    ELSE ScrapePages(now, event_links, start_date, end_date, 1, <<>>)

\* "Deduplicate events by URL"
UniqueByUrl(new_events, all_events) ==
    LET existing_urls == {all_events[i].URL : i \in DOMAIN all_events}
    IN  SelectSeq(new_events, LAMBDA e : e.URL \notin existing_urls)

BelowThreshold(event_date, max_date_threshold) ==
    event_date # NoDate /\ IsoLess(event_date, max_date_threshold)

\* "if event_date and event_date <= max_date_threshold"
KeptByFilter(event_date, max_date_threshold) ==
    event_date # NoDate /\ IsoLeq(event_date, max_date_threshold)

\* the date matches a text block may hold
TextPool ==
    { [title |-> "gala",    month |-> 3, day |-> 3, year |-> NoYear],
      [title |-> "regatta", month |-> 3, day |-> 5, year |-> NoYear],
      [title |-> "reunion", month |-> 3, day |-> 3, year |-> 2023],
      [title |-> "parade",  month |-> 9, day |-> 2, year |-> 2025] }

\* the event pages the calendar may link to
PagePool ==
    { [url |-> "/events/tour", name |-> "tour", url_date |-> <<2025, 9, 1>>,
       has_text |-> FALSE, month |-> 0, day |-> 0, year |-> NoYear],
      [url |-> "/events/concert", name |-> "concert", url_date |-> <<2025, 9, 2>>,
       has_text |-> FALSE, month |-> 0, day |-> 0, year |-> NoYear],
      [url |-> "/events/market", name |-> "market", url_date |-> NoDate,
       has_text |-> TRUE, month |-> 3, day |-> 3, year |-> NoYear],
      [url |-> "/events/mixer", name |-> "mixer", url_date |-> NoDate,
       has_text |-> FALSE, month |-> 0, day |-> 0, year |-> NoYear] }

MaxPages == 2
MaxMatches == 1

\* event_links holds no URL twice
EventLinks ==
    {l \in SeqsUpTo(PagePool, MaxPages) :
        \A i, j \in DOMAIN l : i # j => l[i] # l[j]}

Nows == {<<2024, 9, 1>>}
GivenStarts == {<<2024, 1, 1>>}
LookAhead == {DefaultDays, 400}

InitScrape ==
    /\ businesses = <<>>
    /\ events = {}
    /\ ImportersIdle
    /\ MatcherIdle
    /\ FuzzyIdle
    /\ s_now \in Nows
    /\ s_start \in {s_now} \cup GivenStarts
    /\ s_days \in LookAhead
    /\ s_links = <<>>
    /\ s_all = <<>>
    /\ s_out = <<>>
    /\ s_pc = "calendar"
    /\ DbIdle
    /\ FetchIdle

\* "1. Try web scraping approach for calendar page"
CalendarEvents ==
    /\ s_pc = "calendar"
    /\ \E event_links \in EventLinks, matches \in SeqsUpTo(TextPool, MaxMatches) :
          /\ s_links' = event_links
          /\ s_all' = get_events_for_date_range(s_now, event_links, matches, s_start,
                                                PlusDays(s_start, s_days))
    /\ s_pc' = "weekend"
    /\ UNCHANGED <<businesses, importerVars, matcherVars, fuzzyVars, dbVars, fetchVars,
                   s_now, s_start, s_days, s_out>>

\* "2. Try the weekend events page"
WeekendEvents ==
    /\ s_pc = "weekend"
    /\ \E matches \in SeqsUpTo(TextPool, MaxMatches) :
          s_all' = s_all \o UniqueByUrl(
                       extract_events_from_text(s_now, matches, "weekend", 1, <<>>), s_all)
    /\ s_pc' = "mobile"
    /\ UNCHANGED <<businesses, importerVars, matcherVars, fuzzyVars, dbVars, fetchVars,
                   s_now, s_start, s_days, s_links, s_out>>

\* "3. Try the mobile events page"
MobileEvents ==
    /\ s_pc = "mobile"
    /\ \E matches \in SeqsUpTo(TextPool, MaxMatches) :
          s_all' = s_all \o UniqueByUrl(
                       extract_events_from_text(s_now, matches, "mobile", 1, <<>>), s_all)
    /\ s_pc' = "filter"
    /\ UNCHANGED <<businesses, importerVars, matcherVars, fuzzyVars, dbVars, fetchVars,
                   s_now, s_start, s_days, s_links, s_out>>

\* "Filter out events with suspicious dates (far in the future)"
FilterEvents ==
    /\ s_pc = "filter"
    /\ LET max_date_threshold == PlusDays(s_start, FarFutureDays)
       IN  s_out' = SelectSeq(s_all, LAMBDA event :
                                  KeptByFilter(event.Date, max_date_threshold))
    /\ s_pc' = "done"
    /\ UNCHANGED <<businesses, importerVars, matcherVars, fuzzyVars, dbVars, fetchVars,
                   s_now, s_start, s_days, s_links, s_all>>

NextScrape ==
    \/ CalendarEvents
    \/ WeekendEvents
    \/ MobileEvents
    \/ FilterEvents

SpecScrape == InitScrape /\ [][NextScrape]_vars

(***************************************************************************)
(* CharlestonDB (utils/database_manager.py): the calls that write venues.  *)
(* Every call opens its own connection and commits before it returns, so   *)
(* a call is one step.  A row of businesses is its id, name and location;  *)
(* the other columns are written like location.                            *)
(***************************************************************************)

\* cursor.lastrowid of an INSERT without id: INTEGER PRIMARY KEY takes the
\* largest id + 1, and 1 in an empty table
NewRowId(rows) ==
    IF Len(rows) = 0 THEN 1
    ELSE 1 + (CHOOSE m \in {rows[i].id : i \in DOMAIN rows} :
                  \A i \in DOMAIN rows : rows[i].id <= m)

\* SELECT id FROM businesses WHERE name = ?; fetchone(): the position of
\* the first row of that name, 0 when there is none (name = NULL is never true)
RowOfName(rows, name) ==
    IF name # None /\ \E i \in DOMAIN rows : rows[i].name = name
    THEN CHOOSE i \in DOMAIN rows :
             /\ rows[i].name = name
             /\ \A j \in 1..(i - 1) : rows[j].name # name
    ELSE 0

\* an INSERT whatever the table holds
InsertAlways(rows, name, location) ==
    Append(rows, [id |-> NewRowId(rows), name |-> name, location |-> location])

\* "if result:" UPDATE businesses SET ... WHERE id = ?  "else:" INSERT
Upsert(rows, name, location) ==
    IF RowOfName(rows, name) # 0
    THEN [rows EXCEPT ![RowOfName(rows, name)].location = location]
    ELSE Append(rows, [id |-> NewRowId(rows), name |-> name, location |-> location])

\* the id add_business returns
UpsertId(rows, name) ==
    IF RowOfName(rows, name) # 0 THEN rows[RowOfName(rows, name)].id ELSE NewRowId(rows)

RECURSIVE ImportBusinessRows(_, _, _)
\* import_csv_businesses, "for i, row in df.iterrows():" from row i on; a
\* row without a name is skipped
ImportBusinessRows(rows, df, i) ==
    IF i > Len(df) THEN rows
    ELSE ImportBusinessRows(
             IF Truthy(df[i].name) THEN Upsert(rows, df[i].name, df[i].location) ELSE rows,
             df, i + 1)

\* imported_count of import_csv_businesses
ImportedBusinesses(df) == Cardinality({i \in DOMAIN df : Truthy(df[i].name)})

VenueNames == {Rooftop, KingCharles}

VenueLocations == {None, KingSt}

\* the lines a business CSV may hold: a NaN name as well
CsvBusinessPool == [name : VenueNames \cup {None}, location : VenueLocations]

MaxCsvRows == 2

InitVenue ==
    /\ businesses \in {<<>>, Catalog(0)}
    /\ events = {}
    /\ ImportersIdle
    /\ MatcherIdle
    /\ FuzzyIdle
    /\ ScraperIdle
    /\ DbIdle
    /\ FetchIdle

\* CharlestonDB.add_business(name, location); a name None violates NOT NULL
\* and the call raises before it has changed anything
AddBusiness ==
    \E name \in VenueNames \cup {None}, location \in VenueLocations :
        /\ d_call' = [op |-> "add_business", name |-> name, location |-> location]
        /\ IF name = None
           THEN /\ d_result' = NoId
                /\ UNCHANGED businesses
           ELSE /\ businesses' = Upsert(businesses, name, location)
                /\ d_result' = UpsertId(businesses, name)
        /\ UNCHANGED <<importerVars, matcherVars, fuzzyVars, scraperVars, fetchVars>>

\* CharlestonDB.import_csv_businesses(csv_path)
ImportCsvBusinesses ==
    \E df \in SeqsUpTo(CsvBusinessPool, MaxCsvRows) :
        /\ d_call' = [op |-> "import_csv_businesses", df |-> df]
        /\ businesses' = ImportBusinessRows(businesses, df, 1)
        /\ d_result' = ImportedBusinesses(df)
        /\ UNCHANGED <<importerVars, matcherVars, fuzzyVars, scraperVars, fetchVars>>

NextVenue ==
    \/ AddBusiness
    \/ ImportCsvBusinesses

SpecVenue == InitVenue /\ [][NextVenue]_vars

(***************************************************************************)
(* CharlestonDB and BaseEventScraper (data_collection/scrapers.py): the    *)
(* calls that write events without an EventImporter.  A row of events is   *)
(* here its id, name, date and source.                                     *)
(***************************************************************************)

Hcs == <<"h","c","s">>

\* the value add_event_from_dict passes for a parameter: the value under
\* the capitalized key or under the lowercase one (a dict of the model
\* spells a key one way)
Param(event_dict, key, lower) ==
    IF key \in DOMAIN event_dict THEN event_dict[key]
    ELSE IF lower \in DOMAIN event_dict THEN event_dict[lower] ELSE None

\* "if 'source' not in event: event['source'] = self.source_name"
WithSource(event, source_name) ==
    IF "source" \in DOMAIN event THEN event
    ELSE [k \in DOMAIN event \cup {"source"} |->
             IF k = "source" THEN source_name ELSE event[k]]

\* the largest id + 1, and 1 in an empty table
NewEventId(rows) ==
    IF rows = {} THEN 1 ELSE 1 + MaxId(rows)

\* add_event: INSERT INTO events (name, date, ...) and commit; a name None
\* violates NOT NULL, the INSERT raises and the table stays as it is
add_event(rows, name, date, source) ==
    IF name = None THEN rows
    ELSE rows \cup {[id |-> NewEventId(rows), name |-> name, date |-> date,
                     source |-> source]}

add_event_from_dict(rows, event_dict) ==
    add_event(rows, Param(event_dict, "Name", "name"), Param(event_dict, "Date", "date"),
              Param(event_dict, "Source", "source"))

RECURSIVE save_to_database(_, _, _, _)
\* BaseEventScraper.save_to_database over a CharlestonDB, from event i on:
\* the table and the count; an event whose INSERT raised is not counted
save_to_database(st, evs, source_name, i) ==
    IF i > Len(evs) THEN st
    ELSE LET event == WithSource(evs[i], source_name)
             after == add_event_from_dict(st.rows, event)
         IN  save_to_database([rows |-> after,
                               count |-> st.count + (IF after = st.rows THEN 0 ELSE 1)],
                              evs, source_name, i + 1)

\* SELECT id FROM events WHERE name = ? AND date = ? AND source = ?: a
\* comparison with NULL is never true
EventExists(rows, name, date, source) ==
    \E r \in rows :
        /\ r.name = name
        /\ date # None /\ r.date = date
        /\ source # None /\ r.source = source

RECURSIVE import_events(_, _, _, _)
\* CharlestonDB.import_events from row i on (the index of the frame counts
\* from 0): the table and imported_count
import_events(st, events_df, start_id, i) ==
    IF i > Len(events_df) THEN st
    ELSE LET row == events_df[i]
         IN  import_events(
                 IF ~Truthy(row.name) \/ EventExists(st.rows, row.name, row.date, row.source)
                 THEN st
                 ELSE [rows |-> st.rows \cup {[id |-> start_id + (i - 1), name |-> row.name,
                                               date |-> row.date, source |-> row.source]},
                       count |-> st.count + 1],
                 events_df, start_id, i + 1)

\* the events a scraper hands to save_to_database
SavePool ==
    { [Name |-> Jazz, Date |-> Date1],
      [name |-> TacoFest, date |-> Date1, source |-> Hcs],
      [Date |-> Date1] }

\* the rows of a frame given to import_events
FramePool ==
    { [name |-> Jazz, date |-> Date1, source |-> Hcs],
      [name |-> Jazz, date |-> None, source |-> Hcs],
      [name |-> TacoFest, date |-> Date1, source |-> None],
      [name |-> <<>>, date |-> Date1, source |-> Hcs] }

MaxSaved == 2
MaxFrameRows == 2
MaxDbRows == 4

InitDb ==
    /\ businesses = <<>>
    /\ events = {}
    /\ ImportersIdle
    /\ MatcherIdle
    /\ FuzzyIdle
    /\ ScraperIdle
    /\ DbIdle
    /\ FetchIdle

\* scraper.save_to_database(events), the scraper holding a CharlestonDB
SaveToDatabase ==
    \E evs \in SeqsUpTo(SavePool, MaxSaved) :
        /\ Cardinality(events) + Len(evs) <= MaxDbRows
        /\ LET st == save_to_database([rows |-> events, count |-> 0], evs, Hcs, 1)
           IN  /\ events' = st.rows
               /\ d_result' = st.count
        /\ d_call' = [op |-> "save_to_database", events |-> evs]
        /\ UNCHANGED <<businesses, pending, conn, pc, caller, method, step, input,
                       existing_events, loaded_businesses, next_id, imported_count,
                       duplicate_count, business_match_count, events_to_import,
                       total_imported, first_admitted, result, outcome, runs,
                       matcherVars, fuzzyVars, scraperVars, fetchVars>>

\* CharlestonDB.import_events(events_df)
ImportEvents ==
    \E events_df \in SeqsUpTo(FramePool, MaxFrameRows) :
        /\ Cardinality(events) + Len(events_df) <= MaxDbRows
        /\ LET st == import_events([rows |-> events, count |-> 0], events_df,
                                   NewEventId(events), 1)
           IN  /\ events' = st.rows
               /\ d_result' = st.count
        /\ d_call' = [op |-> "import_events", events_df |-> events_df]
        /\ UNCHANGED <<businesses, pending, conn, pc, caller, method, step, input,
                       existing_events, loaded_businesses, next_id, imported_count,
                       duplicate_count, business_match_count, events_to_import,
                       total_imported, first_admitted, result, outcome, runs,
                       matcherVars, fuzzyVars, scraperVars, fetchVars>>

NextDb ==
    \/ SaveToDatabase
    \/ ImportEvents

SpecDb == InitDb /\ [][NextDb]_vars

(***************************************************************************)
(* fetch_url (data_collection/utils.py).  requests.get returns within its  *)
(* timeout; it or raise_for_status raises a RequestException (a timeout, a *)
(* connection error, an HTTP error status) or the response is returned.    *)
(***************************************************************************)

MaxRetries == 3

Failures == {"Timeout", "ConnectionError", "HTTPError"}

\* a sleep before every attempt, the first as well
DelayBeforeEvery(attempt) == attempt >= 0

\* "if attempt > 0: time.sleep(delay + random.uniform(0, 1))"
DelayBefore(attempt) == attempt > 0

\* the attempts slept before, once the attempt has begun
Slept(delays, attempt) == IF DelayBefore(attempt) THEN delays \cup {attempt} ELSE delays

InitFetch ==
    /\ businesses = <<>>
    /\ events = {}
    /\ ImportersIdle
    /\ MatcherIdle
    /\ FuzzyIdle
    /\ ScraperIdle
    /\ DbIdle
    /\ u_retries \in 0..MaxRetries
    /\ u_pc = "loop"
    /\ u_attempt = 0
    /\ u_requests = <<>>
    /\ u_delays = {}
    /\ u_result = "None"

\* one pass of "for attempt in range(retries)" that ends in return response.text
RequestSucceeds ==
    /\ u_pc = "loop"
    /\ u_attempt < u_retries
    /\ u_delays' = Slept(u_delays, u_attempt)
    /\ u_requests' = Append(u_requests, "ok")
    /\ u_result' = "body"
    /\ u_pc' = "done"
    /\ UNCHANGED <<businesses, importerVars, matcherVars, fuzzyVars, scraperVars, dbVars,
                   u_retries, u_attempt>>

\* one pass that ends in the except clause
RequestFails ==
    /\ u_pc = "loop"
    /\ u_attempt < u_retries
    /\ u_delays' = Slept(u_delays, u_attempt)
    /\ \E e \in Failures : u_requests' = Append(u_requests, e)
    /\ u_attempt' = u_attempt + 1
    /\ UNCHANGED <<businesses, importerVars, matcherVars, fuzzyVars, scraperVars, dbVars,
                   u_retries, u_pc, u_result>>

\* the range is used up: return None
GiveUp ==
    /\ u_pc = "loop"
    /\ u_attempt >= u_retries
    /\ u_result' = "None"
    /\ u_pc' = "done"
    /\ UNCHANGED <<businesses, importerVars, matcherVars, fuzzyVars, scraperVars, dbVars,
                   u_retries, u_attempt, u_requests, u_delays>>

NextFetch ==
    \/ RequestSucceeds
    \/ RequestFails
    \/ GiveUp

\* a call that has begun goes on: nothing in the loop waits for another process
SpecFetch == InitFetch /\ [][NextFetch]_vars /\ WF_vars(NextFetch)

(***************************************************************************)
(* Properties                                                              *)
(***************************************************************************)

\* the (name, date) identity of a raw record, as the run's method cleans it
KeyOf(m, event) == <<Clean(m, Get(event, "Name")), Clean(m, Get(event, "Date"))>>

\* the positions of the records of the run of p that have a name
Named(p) == {i \in DOMAIN input[p] : HasName(input[p][i])}

\* ... and of those that carry the identity key
Occurrences(p, key) == {i \in Named(p) : KeyOf(method[p], input[p][i]) = key}

\* the positions of the batch of p that carry the identity key
BatchRows(p, key) ==
    {k \in DOMAIN events_to_import[p] :
        <<events_to_import[p][k].name, events_to_import[p][k].date>> = key}

\* the loop of the run of p is over and its batch is not yet inserted
LoopDone(p) == pc[p] = "insert"

\* C1: when the loop of a run is over, a (name, date) pair that was not in
\* the existing set and that two or more records of the input carry has been
\* admitted once, and every further occurrence has been counted as a
\* duplicate.
C1_SecondOccurrenceIsDuplicate ==
    \A p \in Importers :
        LoopDone(p) =>
            \A i \in Named(p) :
                LET key == KeyOf(method[p], input[p][i])
                IN  (key \notin existing_events[p] /\ Cardinality(Occurrences(p, key)) >= 2)
                    => /\ Cardinality(BatchRows(p, key)) = 1
                       /\ imported_count[p] = Cardinality({KeyOf(method[p], input[p][j]) : j \in Named(p)}
                                                              \ existing_events[p])
                       /\ duplicate_count[p] >= Cardinality(Occurrences(p, key)) - 1

\* C1: a run reaches the end of its loop over an input in which two records
\* carry the same new (name, date) pair.
C1_TwoRecordsOnePair ==
    \E p \in Importers :
        /\ LoopDone(p)
        /\ \E i, j \in Named(p) :
              /\ i # j
              /\ KeyOf(method[p], input[p][i]) = KeyOf(method[p], input[p][j])
              /\ KeyOf(method[p], input[p][i]) \notin existing_events[p]

\* C2: no two rows of the events table share their (name, date) pair.
C2_NoTwoRowsSharePair ==
    \A r1, r2 \in events :
        <<r1.name, r1.date>> = <<r2.name, r2.date>> => r1 = r2

\* C2: a run has committed a batch into the table.
C2_RunCommitted ==
    \E p \in Importers : outcome[p] = "committed" /\ Cardinality(events) >= 2

\* p is in the second run of a caller that ingests one sequence twice
SecondRun(p) == caller[p] = "twice" /\ step[p] = 2

\* C3: in the second of two runs over the same records, after the first has
\* gone through, no step changes the events table, the loop ends with
\* imported_count = 0, an empty batch and every record that has a name
\* counted as a duplicate (a record without a date as well), and the run
\* returns 0.
C3_DedupIdempotence ==
    [][\A p \in Importers :
          SecondRun(p) =>
              /\ events' = events
              /\ pc'[p] = "insert" =>
                     /\ imported_count'[p] = 0
                     /\ events_to_import'[p] = <<>>
                     /\ duplicate_count'[p] = Cardinality(Named(p))
              /\ pc[p] = "insert" =>
                     /\ outcome'[p] = "nothing_new"
                     /\ result'[p] = [kind |-> "returned", value |-> 0]]_vars

\* C3: the second run over records of which one has a name and no date has
\* counted them all as duplicates, after the first run committed them.
C3_SecondRunAllDuplicates ==
    \E p \in Importers :
        /\ SecondRun(p)
        /\ LoopDone(p)
        /\ outcome[p] = "committed"
        /\ \E i \in Named(p) : KeyOf(method[p], input[p][i])[2] = None
        /\ duplicate_count[p] = Cardinality(Named(p))
        /\ imported_count[p] = 0

\* C4: in the "cvb" run of import_events_from_all_sources, when the loop is
\* over, no record whose (name, date) the "hcs" run of the same call
\* committed is in the batch, and each such record has been counted as a
\* duplicate.
C4_CrossSourceDuplicate ==
    \A p \in Importers :
        (caller[p] = "all" /\ step[p] = 2 /\ LoopDone(p)) =>
            /\ \A key \in first_admitted[p] : BatchRows(p, key) = {}
            /\ duplicate_count[p] >=
                   Cardinality({i \in Named(p) :
                                   KeyOf(method[p], input[p][i]) \in first_admitted[p]})

\* C4: the "cvb" run has met a record the "hcs" run of the call committed.
C4_SecondSourceRepeats ==
    \E p \in Importers :
        /\ caller[p] = "all" /\ step[p] = 2 /\ LoopDone(p)
        /\ \E i \in Named(p) : KeyOf(method[p], input[p][i]) \in first_admitted[p]
        /\ duplicate_count[p] >= 1

\* C5: a batch whose insert failed is never persisted: a failing insert
\* leaves the events table as it was, every row that enters the table
\* belongs to the batch of the run that commits it, and a run loads its
\* existing set and its next id from the committed rows alone.
C5_BatchAtomicity ==
    [][\A p \in Importers :
          /\ (pc[p] = "insert" /\ outcome'[p] = "insert_failed") => events' = events
          /\ (pc[p] = "insert" /\ outcome'[p] = "committed") =>
                 events' \ events \subseteq Range(events_to_import[p])
          /\ (pc[p] = "load" /\ pc'[p] = "maxid") =>
                 existing_events'[p] = ExistingPairs(events)
          /\ (pc[p] = "maxid" /\ pc'[p] = "insert") =>
                 next_id'[p] = NextId(events)]_vars

\* C5: the insert of a batch has failed after its first row.
C5_FailedPartWay ==
    \E p \in Importers : outcome[p] = "insert_failed" /\ pending[p] # {}

\* C6: a run whose insert failed has raised to its caller, which a run that
\* imported nothing (it returns 0) never does, whether the run was
\* import_events_from_scraper or import_events_from_csv.
C6_FailureSurfaced ==
    \A p \in Importers :
        (outcome[p] = "insert_failed" /\ pc[p] = "idle") => result[p].kind = "raised"

\* C6: the insert of a run of import_events_from_csv has failed.
C6_CsvInsertFailed ==
    \E p \in Importers :
        /\ outcome[p] = "insert_failed"
        /\ pc[p] = "idle"
        /\ result[p] = [kind |-> "returned", value |-> 0]
        /\ imported_count[p] > 0

\* the positions of the records the run of p admits: named and not in the
\* existing set
Admitted(p) ==
    {i \in Named(p) : KeyOf(method[p], input[p][i]) \notin existing_events[p]}

\* C7: when the loop of a run over a non-empty events table is over, the
\* batch holds the admitted records in input order, and the k-th of them
\* (k from 0) has id = MAX(id) of the rows the connection sees + 1 + k;
\* the ids are greater than every id in the table when the run started,
\* and a nameless or duplicate record takes no id.
C7_SequentialIds ==
    \A p \in Importers :
        (LoopDone(p) /\ Visible(p) # {}) =>
            /\ Len(events_to_import[p]) = Cardinality(Admitted(p))
            /\ \A i \in Admitted(p) :
                  LET k == Cardinality({j \in Admitted(p) : j < i})
                      row == events_to_import[p][k + 1]
                  IN  /\ row.id = MaxId(Visible(p)) + 1 + k
                      /\ <<row.name, row.date>> = KeyOf(method[p], input[p][i])
                      /\ \A r \in events : r.id < row.id

\* C7: over a non-empty table, a record is admitted after a record that
\* was skipped.
C7_AdmittedAfterSkipped ==
    \E p \in Importers :
        /\ LoopDone(p)
        /\ events # {}
        /\ \E i \in Admitted(p) : \E j \in DOMAIN input[p] \ Admitted(p) : j < i
        /\ events_to_import[p][1].id = MaxId(events) + 1

\* C8: nothing keeps two runs from reading the same MAX(id): when two
\* importers have both ended their loop from the same next_id, the k-th
\* rows of their batches have the same id, next_id + k - 1, whatever events
\* the rows are.
C8_SameReadSameIds ==
    \A p, q \in Importers :
        (p # q /\ LoopDone(p) /\ LoopDone(q) /\ next_id[p] = next_id[q]) =>
            \A k \in DOMAIN events_to_import[p] \cap DOMAIN events_to_import[q] :
                /\ events_to_import[p][k].id = next_id[p] + k - 1
                /\ events_to_import[q][k].id = events_to_import[p][k].id

\* C8: two runs have read MAX(id) before either committed and hold the same
\* id for two different events.
C8_SameIdDifferentEvents ==
    \E p, q \in Importers :
        /\ p # q /\ LoopDone(p) /\ LoopDone(q)
        /\ next_id[p] = NextId(events) /\ next_id[q] = NextId(events)
        /\ \E k \in DOMAIN events_to_import[p], l \in DOMAIN events_to_import[q] :
              /\ events_to_import[p][k].id = events_to_import[q][l].id
              /\ <<events_to_import[p][k].name, events_to_import[p][k].date>>
                     # <<events_to_import[q][l].name, events_to_import[q][l].date>>

\* C9: nothing keeps two runs from admitting the same event: when the loop
\* of a run is over, every named record whose (name, date) was not in the
\* set the run loaded is in its batch, whatever the table holds by then and
\* whatever the other run has admitted.
C9_LoadedSetDecidesAdmission ==
    \A p \in Importers :
        LoopDone(p) =>
            \A i \in Named(p) :
                KeyOf(method[p], input[p][i]) \notin existing_events[p]
                    => BatchRows(p, KeyOf(method[p], input[p][i])) # {}

\* C9: two runs have loaded their existing sets before either committed and
\* both hold the same (name, date) in their batches.
C9_BothAdmitSameEvent ==
    \E p, q \in Importers :
        /\ p # q /\ LoopDone(p) /\ LoopDone(q)
        /\ existing_events[p] = ExistingPairs(events)
        /\ existing_events[q] = ExistingPairs(events)
        /\ \E k \in DOMAIN events_to_import[p] :
              BatchRows(q, <<events_to_import[p][k].name, events_to_import[p][k].date>>) # {}

\* the id the exact-location map holds for the location of the call
ExactLocationId == DictGet(business_by_location(m_catalog), Lower(m_location))

\* the call's location is, lowercased, the lowercased location of a venue
LocationIsExact ==
    /\ Truthy(m_location)
    /\ DictHas(business_by_location(m_catalog), Lower(m_location))

\* C10: whenever the lowercased event location equals the lowercased
\* location of a catalog venue, _find_matching_business returns the id the
\* exact-location map holds for it, id 0 included.
C10_LocationExactPrecedence ==
    (m_result.done /\ LocationIsExact) => m_result.business_id = ExactLocationId

\* C10: an exact location whose venue has a non-zero id is returned even
\* though the name-containment strategy would pick another venue.
C10_ExactLocationReturned ==
    /\ m_result.done
    /\ LocationIsExact
    /\ ExactLocationId # 0
    /\ m_result.business_id = ExactLocationId
    /\ FirstContained(business_by_name(m_catalog), Lower(m_location)) # ExactLocationId

\* what each strategy of _find_matching_business finds when asked alone
\* (NoId for no venue): location contains a business name, ...
ContainsNameInLocation(ix, event_location) ==
    IF Truthy(event_location)
    THEN FirstContained(ix.by_name, Lower(event_location)) ELSE NoId

\* ... the event name contains a business name, ...
ContainsNameInName(ix, event_name) ==
    IF Truthy(event_name)
    THEN FirstContained(ix.by_name, Lower(event_name)) ELSE NoId

\* ... and the keyword score
KeywordMatch(ix, event_name, event_location) ==
    LET pm == potential_matches(ix, event_name, event_location)
    IN  IF pm # <<>> /\ BestMatch(pm)[2] >= 2 THEN BestMatch(pm)[1] ELSE NoId

\* the venue of the earliest strategy, in the order of the cascade, that
\* finds one
EarliestMatch(ix, event_name, event_location) ==
    LET found == << Method1(ix, event_location),
                    ContainsNameInLocation(ix, event_location),
                    ContainsNameInName(ix, event_name),
                    KeywordMatch(ix, event_name, event_location) >>
    IN  IF \A n \in 1..4 : found[n] = NoId THEN NoId
        ELSE found[CHOOSE n \in 1..4 :
                      found[n] # NoId /\ \A k \in 1..(n - 1) : found[k] = NoId]

\* C11: the venue _find_matching_business returns is the venue of the
\* earliest strategy of the cascade (exact location, location contains
\* name, name contains name, keywords) that finds one; a later strategy
\* never overwrites it.
C11_StrictCascade ==
    m_result.done =>
        m_result.business_id = EarliestMatch(VenueIndex(m_catalog), m_name, m_location)

\* C11: the third strategy (name contains name) is the earliest to find a
\* venue and its venue is returned.
C11_ThirdStrategyWins ==
    /\ m_result.done
    /\ Method1(VenueIndex(m_catalog), m_location) = NoId
    /\ ContainsNameInLocation(VenueIndex(m_catalog), m_location) = NoId
    /\ ContainsNameInName(VenueIndex(m_catalog), m_name) # NoId
    /\ m_result.business_id = ContainsNameInName(VenueIndex(m_catalog), m_name)

\* the venues a pass may take and whose score is above the bound
Above(usable, bound) ==
    {j \in DOMAIN f_scores : usable[j] /\ f_scores[j] > bound}

\* the pass of the given type has just run: it has recorded a match exactly
\* when a venue scored above the bound, and then the best such venue
PassDecidedBy(type, usable, bound) ==
    /\ f_best.match_type = type <=> Above(usable, bound) # {}
    /\ f_best.match_type = type =>
           /\ f_best.match_index + 1 \in Above(usable, bound)
           /\ f_best.best_score = f_scores[f_best.match_index + 1]
           /\ \A j \in Above(usable, bound) : f_scores[j] <= f_best.best_score

\* C12: with integer scores, the location-to-name and the
\* location-to-location pass take a venue exactly when its score is above
\* 80 (80 no, 81 yes), the name-to-name pass exactly when it is above 85
\* (85 no, 86 yes), and a recorded match carries a score above the
\* threshold of its recorded type.
C12_ThresholdBoundary ==
    /\ f_pc = "location_pass" => PassDecidedBy("location_to_name", UsableNames, 80)
    /\ (f_pc = "name_pass" /\ "location_to_location" \in f_tried) =>
           PassDecidedBy("location_to_location", UsableLocations, 80)
    /\ (f_pc = "record" /\ "name_to_name" \in f_tried) =>
           PassDecidedBy("name_to_name", UsableNames, 85)
    /\ f_row.Business_Match_Type \in {"location_to_name", "location_to_location"} =>
           f_row.Business_Match_Score > 80
    /\ f_row.Business_Match_Type = "name_to_name" => f_row.Business_Match_Score > 85

\* C12: a name-to-name match with score 86 has been recorded for the second
\* venue, after the first venue scored 85 in the same pass.
C12_BoundaryScoresMet ==
    /\ f_pc = "done"
    /\ f_row.Business_Match_Type = "name_to_name"
    /\ f_row.Business_Match_Score = 86
    /\ f_row.Business_ID = 1
    /\ UsableNames[1]
    /\ f_scores[1] = 85

\* the words of more than 3 letters of a venue name
VenueWords(row) ==
    IF Truthy(row.name)
    THEN {w \in Range(ReSplit(Lower(row.name))) : Len(w) > 3} ELSE {}

\* the tokens of an event field
Tokens(text) == IF Truthy(text) THEN ReSplit(Lower(text)) ELSE <<>>

\* the number of tokens of the field that are words of the venue name
Hits(text, row) ==
    Cardinality({i \in DOMAIN Tokens(text) : Tokens(text)[i] \in VenueWords(row)})

\* 2 points for every hit of a location token, 1 for every hit of a name token
Points(row) == 2 * Hits(m_location, row) + Hits(m_name, row)

\* no strategy before the keyword strategy finds a venue
NoEarlierMatch ==
    /\ Method1(VenueIndex(m_catalog), m_location) = NoId
    /\ ContainsNameInLocation(VenueIndex(m_catalog), m_location) = NoId
    /\ ContainsNameInName(VenueIndex(m_catalog), m_name) = NoId

\* C13: when no earlier strategy matched, a venue gets 2 points for every
\* event-location token and 1 point for every event-name token that is a
\* word (of more than 3 letters) of its name; the call returns a venue with
\* the highest total if that total is at least 2, and no venue otherwise (a
\* single shared word in the event name alone gives 1 point and no venue).
C13_KeywordFallback ==
    (m_result.done /\ NoEarlierMatch) =>
        IF \E j \in DOMAIN m_catalog : Points(m_catalog[j]) >= 2
        THEN \E j \in DOMAIN m_catalog :
                /\ m_result.business_id = m_catalog[j].id
                /\ \A k \in DOMAIN m_catalog : Points(m_catalog[k]) <= Points(m_catalog[j])
        ELSE m_result.business_id = NoId

\* C13: the keyword strategy alone has found the venue of the call, from a
\* word of the event location.
C13_KeywordFromLocation ==
    /\ m_result.done
    /\ NoEarlierMatch
    /\ \E j \in DOMAIN m_catalog :
          /\ Hits(m_location, m_catalog[j]) >= 1
          /\ m_result.business_id = m_catalog[j].id

\* C14: an absent field switches off only the passes that use it: an event
\* row without a location and with a name is still put through the
\* name-to-name pass, and a row without a name through the location passes.
C14_AbsentFieldSkipsOnlyItsPasses ==
    f_pc = "done" =>
        /\ (f_event.has_name /\ ~f_event.has_location) => "name_to_name" \in f_tried
        /\ (f_event.has_location /\ ~f_event.has_name) => "location_to_name" \in f_tried

\* C14: an event row without a name has been matched by a location pass.
C14_NamelessRowMatched ==
    /\ f_pc = "done"
    /\ f_event.has_location
    /\ ~f_event.has_name
    /\ f_row.Business_Match_Type \in {"location_to_name", "location_to_location"}

\* the record has no usable Name: the key is missing, its value is None
\* (null) or its value is the empty string
Nameless(event) ==
    \/ "Name" \notin DOMAIN event
    \/ event["Name"] = None
    \/ event["Name"] = <<>>

HasUsableName(event) == ~Nameless(event)

\* what the loop of p has produced
LoopOutcome(p) ==
    [to_import |-> events_to_import[p],
     imported_count |-> imported_count[p],
     duplicate_count |-> duplicate_count[p],
     business_match_count |-> business_match_count[p]]

\* C15: records without a usable Name change nothing: when the loop is
\* over, the batch (rows and ids) and the three counters are what the loop
\* produces over the input with those records taken out, no row of the
\* batch is nameless, and imported + duplicates counts the named records.
C15_NamelessDropped ==
    \A p \in Importers :
        LoopDone(p) =>
            /\ LoopOutcome(p) =
                   ProcessEvents(method[p], ZeroCounters,
                                 SelectSeq(input[p], HasUsableName), 1,
                                 existing_events[p],
                                 VenueIndex(loaded_businesses[p]), next_id[p])
            /\ \A k \in DOMAIN events_to_import[p] : Truthy(events_to_import[p][k].name)
            /\ imported_count[p] + duplicate_count[p]
                   = Len(SelectSeq(input[p], HasUsableName))

\* C15: the loop has admitted a record that came after a nameless one.
C15_NamelessBeforeAdmitted ==
    \E p \in Importers :
        /\ LoopDone(p)
        /\ Len(input[p]) = 2
        /\ Nameless(input[p][1])
        /\ Len(events_to_import[p]) = 1
        /\ events_to_import[p][1].id = next_id[p]

\* the capitalized spelling of a field key
Capitalized(key) ==
    CASE key = "name" -> "Name"
      [] key = "date" -> "Date"
      [] key = "location" -> "Location"
      [] OTHER -> key

\* the record with every field under its capitalized key
Canonical(event) ==
    [K \in {Capitalized(k) : k \in DOMAIN event} |->
        event[CHOOSE k \in DOMAIN event : Capitalized(k) = K]]

\* C16: a record that carries its fields under lowercase keys is ingested
\* like the record with the same values under the capitalized keys: when
\* the loop is over, the batch and the counters are what the loop produces
\* over the input with every key capitalized, so a record named only under
\* the key name is not dropped as nameless.
C16_LowercaseKeysAccepted ==
    \A p \in Importers :
        LoopDone(p) =>
            LoopOutcome(p) =
                ProcessEvents(method[p], ZeroCounters,
                              [i \in DOMAIN input[p] |-> Canonical(input[p][i])], 1,
                              existing_events[p],
                              VenueIndex(loaded_businesses[p]), next_id[p])

\* C16: the loop has run over a record whose name is under the key name.
C16_LowercaseRecordSeen ==
    \E p \in Importers :
        /\ LoopDone(p)
        /\ \E i \in DOMAIN input[p] :
              /\ "name" \in DOMAIN input[p][i]
              /\ Truthy(input[p][i]["name"])
        /\ events_to_import[p] = <<>>

\* the rows of the batch of p that carry a venue id
Linked(p) ==
    {k \in DOMAIN events_to_import[p] : events_to_import[p][k].business_id # NoId}

\* C17: when the loop of a run is over, business_match_count is the number
\* of admitted records that carry a venue id (0 is one), so it is at most
\* imported_count and no nameless or duplicate record has raised it, and
\* every venue id a row carries is the id of a business the run loaded.
C17_BusinessMatchesCounted ==
    \A p \in Importers :
        LoopDone(p) =>
            /\ business_match_count[p] = Cardinality(Linked(p))
            /\ business_match_count[p] <= imported_count[p]
            /\ imported_count[p] = Len(events_to_import[p])
            /\ \A k \in Linked(p) :
                  \E j \in DOMAIN loaded_businesses[p] :
                      loaded_businesses[p][j].id = events_to_import[p][k].business_id

\* C17: the loop has admitted one record with a venue and skipped or
\* admitted another without.
C17_OneLinkedOfTwo ==
    \E p \in Importers :
        /\ LoopDone(p)
        /\ Len(input[p]) = 2
        /\ business_match_count[p] = 1
        /\ Cardinality(Linked(p)) = 1
        /\ Len(events_to_import[p]) + duplicate_count[p] = 2

\* a page in whose URL and description no date pattern is found
Dateless(page) == page.url_date = NoDate /\ ~page.has_text

ReturnedFrom(page) ==
    \E j \in DOMAIN s_out : s_out[j].URL = page.url /\ s_out[j].Date = NoDate

\* C18: an event for which no date could be extracted keeps a null date and
\* proceeds to ingestion: once get_all_events has returned, every scraped
\* page without a recognizable date has its event, dateless, in the
\* returned list.
C18_DatelessProceeds ==
    s_pc = "done" =>
        \A i \in DOMAIN s_links : Dateless(s_links[i]) => ReturnedFrom(s_links[i])

C18_DatelessPageScraped ==
    /\ s_pc = "done"
    /\ \E i \in DOMAIN s_links : Dateless(s_links[i]) /\ s_links[i].name # ""

\* what the text an event was extracted from says: month, day and year
WrittenDates(event) ==
    IF event.URL \in {"calendar", "weekend", "mobile"}
    THEN {m \in TextPool : m.title = event.Name}
    ELSE {pg \in PagePool : pg.url = event.URL /\ pg.url_date = NoDate /\ pg.has_text}

\* the date the roll-forward rule gives
RolledForward(now, written) ==
    LET year == IF written.year # NoYear THEN written.year ELSE now[1]
        inferred == <<year, written.month, written.day>>
    IN  IF written.year = NoYear /\ Ordinal(now) - Ordinal(inferred) > RollDays
        THEN <<year + 1, written.month, written.day>>
        ELSE inferred

\* C19: the year of an extracted date is increased by one exactly when the
\* text had no year and the date with the current year is more than 180
\* days before now; a date at most 180 days past, or with a written year,
\* keeps its year; on the text-block path and on the single-page path.
C19_YearRollForward ==
    \A i \in DOMAIN s_all :
        \A written \in WrittenDates(s_all[i]) :
            s_all[i].Date = RolledForward(s_now, written)

C19_MarchThirdRolled ==
    \E i \in DOMAIN s_all :
        /\ s_all[i].Name = "gala"
        /\ s_now = <<2024, 9, 1>>
        /\ s_all[i].Date = <<2025, 3, 3>>

DaysAhead(event) == Ordinal(event.Date) - Ordinal(s_start)

\* C20: when get_all_events has returned, every dated event of the returned
\* list is at most 365 days after the start date, and a dated event the
\* run collected is in the returned list exactly when it is at most 365
\* days after the start date.
C20_FarFutureRejection ==
    s_pc = "done" =>
        /\ \A j \in DOMAIN s_out :
               s_out[j].Date # NoDate => DaysAhead(s_out[j]) <= FarFutureDays
        /\ \A i \in DOMAIN s_all :
               s_all[i].Date # NoDate =>
                   (DaysAhead(s_all[i]) <= FarFutureDays
                        <=> \E j \in DOMAIN s_out : s_out[j] = s_all[i])

C20_ExactlyAYearAheadKept ==
    /\ s_pc = "done"
    /\ \E j \in DOMAIN s_out : DaysAhead(s_out[j]) = FarFutureDays
    /\ \E i \in DOMAIN s_all :
           /\ DaysAhead(s_all[i]) = FarFutureDays + 1
           /\ \A j \in DOMAIN s_out : s_out[j] # s_all[i]

\* the venues a pass may take that reached the best score of the pass
TopScorers(usable, bound) ==
    {j \in Above(usable, bound) : \A k \in Above(usable, bound) : f_scores[k] <= f_scores[j]}

\* the pass of the given type has just run and has taken the first, in
\* catalog order, of the venues with the best score
FirstTopScorerTaken(type, usable, bound) ==
    f_best.match_type = type =>
        /\ f_best.match_index + 1 \in TopScorers(usable, bound)
        /\ \A j \in TopScorers(usable, bound) : f_best.match_index + 1 <= j

\* the accumulator of the keyword strategy of the call
Accumulator == potential_matches(VenueIndex(m_catalog), m_name, m_location)

\* the entries of the accumulator with the highest total
TopEntries ==
    {i \in DOMAIN Accumulator : \A j \in DOMAIN Accumulator : Accumulator[j][2] <= Accumulator[i][2]}

\* C21: within one pass of the fuzzy matcher, of several venues with the
\* same best score above the threshold the first in catalog order is
\* selected; in the keyword fallback, of several venues with the same
\* highest total (at least 2) the one that entered the accumulator first
\* is returned.
C21_FirstEncounteredWinsTies ==
    /\ f_pc = "location_pass" => FirstTopScorerTaken("location_to_name", UsableNames, 80)
    /\ (f_pc = "name_pass" /\ "location_to_location" \in f_tried) =>
           FirstTopScorerTaken("location_to_location", UsableLocations, 80)
    /\ (f_pc = "record" /\ "name_to_name" \in f_tried) =>
           FirstTopScorerTaken("name_to_name", UsableNames, 85)
    /\ (m_result.done /\ NoEarlierMatch /\ TopEntries # {}) =>
           \A i \in TopEntries :
               (Accumulator[i][2] >= 2 /\ \A j \in TopEntries : i <= j) =>
                   m_result.business_id = Accumulator[i][1]

\* C21: two venues tied at 86 in the name-to-name pass and the first was
\* recorded; two venues tied at 2 points in the accumulator of a call, the
\* later venue of the catalog having entered it first.
C21_TiesMet ==
    /\ f_pc = "done"
    /\ f_row.Business_Match_Type = "name_to_name"
    /\ f_scores = <<86, 86>>
    /\ f_row.Business_ID = 0
    /\ m_result.done
    /\ NoEarlierMatch
    /\ Cardinality(TopEntries) = 2
    /\ Accumulator[1][2] = 2
    /\ Accumulator[1][1] = 3
    /\ m_result.business_id = 3

\* the keyword index an importer holds after its load
KeywordIndex(p) == business_keywords(loaded_businesses[p])

\* the ids of the loaded venues whose name has the word as a token
VenuesWithWord(p, word) ==
    {loaded_businesses[p][j].id : j \in {k \in DOMAIN loaded_businesses[p] :
                                            word \in VenueWords(loaded_businesses[p][k])}}

\* C22: after load_existing_data every key of the keyword index is a
\* lowercase token of more than 3 characters of some venue name, and the
\* value under a key holds exactly the ids of the venues whose name has
\* that token, each id once.
C22_KeywordIndexIsSet ==
    \A p \in Importers :
        LET kw == KeywordIndex(p)
        IN  \A i \in DOMAIN kw :
                /\ Len(kw[i][1]) > 3
                /\ kw[i][1] = Lower(kw[i][1])
                /\ VenuesWithWord(p, kw[i][1]) # {}
                /\ Range(kw[i][2]) = VenuesWithWord(p, kw[i][1])
                /\ \A a, b \in DOMAIN kw[i][2] : a # b => kw[i][2][a] # kw[i][2][b]

\* C22: an importer has loaded a catalog in which a venue name repeats a word
C22_RepeatedWordLoaded ==
    \E p \in Importers :
        /\ pc[p] # "idle"
        /\ \E j \in DOMAIN loaded_businesses[p] :
               loaded_businesses[p][j].name = TacoTaco

\* the (name, date) pair a record carries, character for character
WrittenPair(event) ==
    <<event["Name"], IF "Date" \in DOMAIN event THEN event["Date"] ELSE None>>

\* the pairs of the rows of the events table
StoredPairs == {<<r.name, r.date>> : r \in events}

\* the positions of the input of p whose pair is in no row of the table
NotStored(p) ==
    {i \in DOMAIN input[p] :
        HasUsableName(input[p][i]) /\ WrittenPair(input[p][i]) \notin StoredPairs}

\* ... and of those whose pair is the pair of a row
Stored(p) ==
    {i \in DOMAIN input[p] :
        HasUsableName(input[p][i]) /\ WrittenPair(input[p][i]) \in StoredPairs}

\* C23: the dedup check is exact equality on the (name, date) pair: when
\* the loop is over, every record whose name or date differs in any
\* character (capitalization, a blank, another date, no date) from every
\* stored event has been admitted with its name and date as written, and
\* exactly the records whose name and date are both those of a stored
\* event have been counted as duplicates.
C23_ExactPairDedup ==
    LoopDone(1) =>
        /\ imported_count[1] = Cardinality(NotStored(1))
        /\ duplicate_count[1] = Cardinality(Stored(1))
        /\ Len(events_to_import[1]) = Cardinality(NotStored(1))
        /\ \A i \in NotStored(1) :
               \E k \in DOMAIN events_to_import[1] :
                   <<events_to_import[1][k].name, events_to_import[1][k].date>>
                       = WrittenPair(input[1][i])

\* C23: over a table that holds ("Jazz", Date1), the loop has admitted
\* "jazz" and "Jazz " of the same date and has counted no duplicate.
C23_CaseVariantAdmitted ==
    /\ LoopDone(1)
    /\ <<Jazz, Date1>> \in StoredPairs
    /\ input[1] = <<[Name |-> JazzLower, Date |-> Date1], [Name |-> JazzBlank, Date |-> Date1]>>
    /\ imported_count[1] = 2
    /\ duplicate_count[1] = 0

\* the rows of the businesses table that carry the name
RowsNamed(rows, name) == {i \in DOMAIN rows : rows[i].name = name}

\* the (name, location) pairs a call writes, in the order it writes them
Written(call) ==
    IF call.op = "add_business"
    THEN (IF call.name = None THEN <<>> ELSE <<[name |-> call.name, location |-> call.location]>>)
    ELSE IF call.op = "import_csv_businesses"
         THEN SelectSeq(call.df, LAMBDA row : row.name # None)
         ELSE <<>>

\* the location the call writes last for the name
LastWritten(call, name) ==
    LET w == Written(call)
        last == CHOOSE i \in DOMAIN w :
                    w[i].name = name /\ \A j \in (i + 1)..Len(w) : w[j].name # name
    IN  w[last].location

\* C24: a call of add_business or import_csv_businesses that names an
\* existing venue overwrites the fields of that venue, keeps its id and
\* adds no row; a new name adds one row; so no two venues ever share a
\* name, and add_business called again with the same arguments leaves the
\* table as it is.
C24_UpsertByName ==
    [][LET call == d_call'
           names == {Written(call)[i].name : i \in DOMAIN Written(call)}
       IN  /\ \A name \in names :
                  /\ Cardinality(RowsNamed(businesses', name)) = 1
                  /\ \A i \in RowsNamed(businesses', name) :
                         /\ businesses'[i].location = LastWritten(call, name)
                         /\ \A j \in RowsNamed(businesses, name) :
                                businesses'[i].id = businesses[j].id
           /\ \A j \in DOMAIN businesses :
                  businesses[j].name \notin names => businesses'[j] = businesses[j]
           /\ Len(businesses') =
                  Len(businesses) + Cardinality({n \in names : RowsNamed(businesses, n) = {}})
           /\ \A i, j \in DOMAIN businesses' :
                  i # j => /\ businesses'[i].name # businesses'[j].name
                           /\ businesses'[i].id # businesses'[j].id
           /\ (call.op = "add_business" /\ call.name # None) =>
                  Upsert(businesses', call.name, call.location) = businesses'
      ]_vars

\* C24: add_business has been called for a venue the table already held and
\* has given it a new location
C24_ExistingVenueOverwritten ==
    /\ d_call.op = "add_business"
    /\ d_call.name = Rooftop
    /\ d_call.location = KingSt
    /\ Len(businesses) = 3
    /\ businesses[1] = [id |-> 0, name |-> Rooftop, location |-> KingSt]
    /\ d_result = 0

\* the step writes rows of events, committed or in the transaction of p
WritesEvents(p) == events' # events \/ ~(pending'[p] \subseteq pending[p])

\* the step is the run of p ending because its load has failed
LoadFailure(p) ==
    pc[p] = "load" /\ pc'[p] \in {"idle", "next_call"} /\ outcome'[p] = "load_failed"

\* C25: a run writes events only after its own load has gone through: at
\* the write its connection is open and it holds the identities and the
\* venue catalog as they are in the database; a run whose load fails
\* writes nothing, commits nothing and returns 0 (adds 0 to the total of
\* import_events_from_all_sources); no step of a run changes the
\* businesses table.
C25_LoadBeforeInsert ==
    [][/\ businesses' = businesses
       /\ \A p \in {1} :
              /\ WritesEvents(p) =>
                     /\ pc[p] = "insert"
                     /\ conn[p] = "open"
                     /\ existing_events[p] = ExistingPairs(events \cup pending[p])
                     /\ loaded_businesses[p] = businesses
              /\ LoadFailure(p) =>
                     /\ events' = events
                     /\ pending' = pending
                     /\ IF pc'[p] = "idle"
                        THEN result'[p] = [kind |-> "returned", value |-> total_imported[p]]
                        ELSE total_imported'[p] = total_imported[p]
                     /\ caller[p] # "all" => total_imported[p] = 0
      ]_vars

\* C25: after a run that committed events, a run on the closed connection
\* has failed to load and has returned 0
C25_LoadFailedAfterCommit ==
    /\ pc[1] = "idle"
    /\ outcome[1] = "load_failed"
    /\ conn[1] = "closed"
    /\ result[1] = [kind |-> "returned", value |-> 0]
    /\ runs[1] >= 2
    /\ \E r \in events : r.id # 3

\* two rows of the table carry the same name and date
SamePair(rows) ==
    \E r1, r2 \in rows : r1.id # r2.id /\ r1.name = r2.name /\ r1.date = r2.date

\* C26: save_to_database inserts no event whose (name, date) is already in
\* the events table: a call adds no second row for a pair, and saving the
\* list that has just been saved changes nothing.
C26_SaveAppliesDedup ==
    [][d_call'.op = "save_to_database" =>
           /\ ~SamePair(events) => ~SamePair(events')
           /\ d_call = d_call' => events' = events
      ]_vars

\* C26: the same list of events has been saved twice
C26_SavedTwice ==
    /\ d_call.op = "save_to_database"
    /\ d_call.events = <<[Name |-> Jazz, Date |-> Date1]>>
    /\ Cardinality({r \in events : r.name = Jazz /\ r.date = Date1}) = 2

\* two rows of the table carry the same name, date and source
SameTriple(rows) ==
    \E r1, r2 \in rows :
        r1.id # r2.id /\ r1.name = r2.name /\ r1.date = r2.date /\ r1.source = r2.source

\* C27: import_events inserts no row whose name, date and source are those
\* of a row of the table (a row it has inserted itself included), also when
\* the date or the source is null; importing the frame that has just been
\* imported returns 0 and changes nothing.
C27_ImportSkipsExisting ==
    [][d_call'.op = "import_events" =>
           /\ ~SameTriple(events) => ~SameTriple(events')
           /\ d_call = d_call' => (d_result' = 0 /\ events' = events)
      ]_vars

\* C27: a frame with a dateless row has been imported twice
C27_DatelessImportedTwice ==
    /\ d_call.op = "import_events"
    /\ d_call.events_df = <<[name |-> Jazz, date |-> None, source |-> Hcs]>>
    /\ Cardinality({r \in events : r.name = Jazz /\ r.date = None}) = 2

\* the requests made so far that failed
FailedRequests == {i \in DOMAIN u_requests : u_requests[i] \in Failures}

\* what holds of a call of fetch_url at every moment
FetchBounded ==
    /\ Len(u_requests) <= u_retries
    /\ \A i \in DOMAIN u_requests : u_requests[i] = "ok" => i = Len(u_requests)
    /\ u_delays = 1..(Len(u_requests) - 1)
    /\ u_pc = "done" =>
           /\ u_result = "body" <=>
                  (u_requests # <<>> /\ u_requests[Len(u_requests)] = "ok")
           /\ u_result = "None" <=>
                  (Len(u_requests) = u_retries /\ Cardinality(FailedRequests) = u_retries)

\* C28: fetch_url returns, after at most retries requests; it makes no
\* request after a successful one and returns its body; it returns None
\* exactly when all retries requests failed (with retries = 0, none was
\* made); it has slept before every attempt but the first.
C28_FetchTerminates == []FetchBounded /\ <>(u_pc = "done")

\* C28: the third of three attempts succeeded, after a sleep before the
\* second and the third
C28_ThirdAttemptSucceeded ==
    /\ u_pc = "done"
    /\ u_retries = 3
    /\ Len(u_requests) = 3
    /\ u_result = "body"
    /\ u_delays = {1, 2}

\* get_events_for_date_range has just returned: all_events is its list
RangeReturned == s_pc = "weekend"

\* C29: every dated event get_events_for_date_range returns lies between
\* start_date and end_date, whether it comes from an event page or from the
\* text of the calendar page.
C29_ReturnedWithinRange ==
    RangeReturned =>
        \A i \in DOMAIN s_all :
            s_all[i].Date # NoDate =>
                /\ Ordinal(s_start) <= Ordinal(s_all[i].Date)
                /\ Ordinal(s_all[i].Date) <= Ordinal(s_start) + s_days

\* C29: no event link was found and the text of the calendar page gave an event
C29_TextFallbackUsed ==
    /\ RangeReturned
    /\ s_links = <<>>
    /\ s_all # <<>>
    /\ s_all[1].URL = "calendar"

\* the records of the run of p the loop drops: those without a usable Name
Dropped(p) == Len(SelectSeq(input[p], Nameless))

\* the step ends a run of p whose loop is over by returning to the caller
ReturnsAfterLoop(p) ==
    /\ pc[p] = "insert"
    /\ pc'[p] # "insert"
    /\ result'[p].kind # "raised" \/ pc'[p] = "next_call"

\* the step ends the "hcs" run of import_events_from_all_sources
FirstSourceReturns(p) == caller[p] = "all" /\ pc'[p] = "next_call"

\* the step makes import_events_from_all_sources return
AllSourcesReturns(p) ==
    /\ caller[p] = "all" \/ caller'[p] = "all"
    /\ pc'[p] = "idle"
    /\ result'[p].kind = "returned"
    /\ outcome'[p] # outcome[p] \/ pc[p] # "idle"

\* C30: when a run returns normally after its loop over n records,
\* imported + duplicates + dropped = n, the value it returns is its
\* imported counter and is the number of rows the run added to the events
\* table; the counters being reset at the start of each run, the total
\* import_events_from_all_sources returns is the sum of the imported
\* counters of its two runs.
C30_CounterConservation ==
    [][\A p \in Importers :
          /\ ReturnsAfterLoop(p) =>
                 /\ imported_count[p] + duplicate_count[p] + Dropped(p) = Len(input[p])
                 /\ Cardinality(events' \ events) = imported_count[p]
                 /\ caller[p] # "all" /\ pc'[p] = "idle" =>
                        result'[p].value = imported_count[p]
          /\ FirstSourceReturns(p) => total_imported'[p] = imported_count'[p]
          /\ AllSourcesReturns(p) =>
                 result'[p].value = total_imported[p] + imported_count'[p]]_vars

\* C30: a run that imported one record and skipped another as a duplicate
\* has committed and returned.
C30_RunCountedBoth ==
    \E p \in Importers :
        /\ pc[p] = "idle"
        /\ outcome[p] = "committed"
        /\ result[p].kind = "returned"
        /\ imported_count[p] > 0
        /\ duplicate_count[p] > 0

====
